---- MODULE Spec2Model ----
(***************************************************************************)
(* Stock-movement ledger of inventory-saas: StockRecord balances, the      *)
(* StockMovement audit log, and the REST handlers that write them          *)
(* (create movement, transfer, adjustment, reconcile, update, destroy),     *)
(* with the Warehouse and Product rows those handlers refer to.            *)
(*                                                                         *)
(* Quantities are FloatFields with a minimum of 0.01; here one unit stands *)
(* for one such step, so quantities are positive integers.                 *)
(*                                                                         *)
(* The database is the pair <<records, movements>> of committed rows.      *)
(* Statements outside transaction.atomic commit at once.  Statements       *)
(* inside transaction.atomic go to the request's buffer tx[p] and reach    *)
(* the committed rows when the block exits normally; an exception drops    *)
(* the buffer.  A row written in an open transaction is locked: another    *)
(* request's write to it waits for the end of that transaction.            *)
(***************************************************************************)
EXTENDS Integers, Sequences, FiniteSets, TLC

\* ------------------------------------------------------------------ bounds
\* a write request is a create-movement or adjustment request that passed
\* validation; a transfer is one write request and two ledger rows
MaxRequests == 2             \* write requests, served one at a time
MaxQuantity == 2             \* largest quantity of a create-movement request
MaxNewQuantity == 2          \* largest new_quantity of an adjustment request
MaxConcurrentRequests == 3   \* write requests, two request threads
MaxEditRequests == 1         \* write requests when movements are also edited
MaxEdits == 1                \* update requests applied in one behaviour
MaxProductRequests == 1      \* write requests when products are also deleted
MaxSpecifications == 2       \* keys of the specifications map of one request
MaxTenantRequests == 2       \* write requests when foreign rows are named
MaxTransferRequests == 2     \* write requests that carry a unit cost
MaxRaceRequests == 2         \* write requests when get_or_create is interleaved
MaxWarehouseRequests == 2    \* write requests when warehouses are also deleted

\* ------------------------------------------------------------ fixed data
Procs == {"r1", "r2"}                 \* request threads
SeqProcs == {"r1"}                    \* one thread: requests one at a time

UserCompany == "c1"                   \* request.user.company
Products == {"p1", "p2"}
ProductCompany == [p \in Products |-> IF p = "p1" THEN "c1" ELSE "c2"]
Warehouses == {"A", "B", "X"}
WarehouseCompany == [w \in Warehouses |-> IF w = "X" THEN "c2" ELSE "c1"]
NoWarehouse == "null"
NoUnitCost == "null"                  \* unit_cost: a decimal with no places, or null

\* Warehouse rows: the warehouses of the stock handlers, and the names of
\* warehouses that the API creates later
Companies == {"c1", "c2"}
WarehouseRows == Warehouses \cup {"C", "Y"}
RowCompany == [w \in WarehouseRows |-> IF w \in {"X", "Y"} THEN "c2" ELSE "c1"]
MainWarehouses == {"A", "X"}          \* setup_company: one main warehouse each

MinQuantity == 1                      \* MinValueValidator(0.01): one unit

\* the caller's own company's rows
OwnProducts == {x \in Products : ProductCompany[x] = UserCompany}
OwnWarehouses == {w \in Warehouses : WarehouseCompany[w] = UserCompany}

StockKeys == Products \X Warehouses   \* unique_together (product, warehouse)

MOVEMENT_TYPE_CHOICES == {"IN", "OUT", "TRANSFER"}
REASON_CHOICES == {"sale", "purchase", "loss", "return", "adjustment", "transfer"}
ReasonInputs == {"sale"}              \* reasons the modelled callers send

\* GlobalAttribute and CustomAttribute rows, by slug, with their data_type;
\* "specifications" is the slug of an attribute named "Specifications"
AttributeSlugs == {"ram", "brand", "specifications"}
data_type == [a \in AttributeSlugs |->
                IF a = "ram" THEN "number"
                ELSE IF a = "brand" THEN "text" ELSE "boolean"]

\* the default_value (a CharField) that a TemplateAttribute of each attribute
\* carries when it carries one
DefaultValues == [a \in AttributeSlugs |->
                    IF a = "ram" THEN <<"8">>
                    ELSE IF a = "brand" THEN <<" ", "H", "P", " ">>
                    ELSE <<"Y", "e", "s">>]

VARIABLES
    records,     \* StockRecord table: StockKeys -> [exists, current_quantity, rows]
    movements,   \* StockMovement table in primary-key order
    pc,          \* where each request thread is
    req,         \* the request a thread is serving
    obj,         \* the thread's in-memory model instances
    tx,          \* the thread's open transaction: [recs, movs]
    resp,        \* the response a thread has produced
    nedits,      \* update requests served so far
    warehouses,  \* Warehouse table: WarehouseRows -> [exists, is_main, is_active]
    products     \* Product table: Products -> [is_active]

vars == <<records, movements, pc, req, obj, tx, resp, nedits, warehouses, products>>

\* the tables the stock handlers read and never write
catalog == <<warehouses, products>>

\* ------------------------------------------------------------- helpers
NoRecord == [exists |-> FALSE, current_quantity |-> 0, rows |-> 0]
NewRecord == [exists |-> TRUE, current_quantity |-> 0, rows |-> 1]

NoWarehouseRow == [exists |-> FALSE, is_main |-> FALSE, is_active |-> FALSE]

NoTx == [recs |-> [k \in {} |-> 0], movs |-> << >>]

\* JSON values of a specifications map: t is the Python type of the value,
\* s the characters of a str, n the number of an int or float, b the bool
Value(t, s, n, b) == [t |-> t, s |-> s, n |-> n, b |-> b]
Null == Value("null", << >>, 0, FALSE)
StrValue(s) == Value("str", s, 0, FALSE)
IntValue(n) == Value("int", << >>, n, FALSE)
FloatValue(n) == Value("float", << >>, n, FALSE)
BoolValue(b) == Value("bool", << >>, 0, b)

\* TemplateAttribute rows of one template, by the slug of their attribute
NoTemplateAttribute == [exists |-> FALSE, is_active |-> FALSE, is_required |-> FALSE,
                        default_value |-> << >>]
NoTemplate == [a \in AttributeSlugs |-> NoTemplateAttribute]

NoSpecifications == [k \in {} |-> Null]
NoErrors == [k \in {} |-> [kind |-> "-", attributes |-> {}]]

NoPatch == [stock_record |-> <<"-", "-">>, movement_type |-> "-", quantity |-> 0,
            from_warehouse |-> "-", to_warehouse |-> "-"]

NoReq == [kind |-> "none", product |-> "-", warehouse |-> "-", movement_type |-> "-",
          quantity |-> 0, reason |-> "-", unit_cost |-> NoUnitCost,
          to_warehouse |-> NoWarehouse,
          new_quantity |-> 0, id |-> 0, patch |-> NoPatch,
          company |-> "-", is_main |-> FALSE, is_active |-> FALSE,
          template |-> NoTemplate, specifications |-> NoSpecifications]

NoObj == [current_quantity |-> 0, dest_quantity |-> 0, calculated |-> 0]

NoResp == [status |-> "-", available |-> 0, resulting_balance |-> 0,
           old_quantity |-> 0, new_quantity |-> 0, difference |-> 0,
           errors |-> NoErrors, validated_specifications |-> NoSpecifications,
           id |-> 0]

Response(status) == [NoResp EXCEPT !.status = status]

Abs_Signed(n) == n

Abs(n) == IF n < 0 THEN -n ELSE n

Movement(k, movement_type, quantity, resulting_balance, reason, unit_cost, from_warehouse, to_warehouse) ==
    [stock_record |-> k, movement_type |-> movement_type, quantity |-> quantity,
     resulting_balance |-> resulting_balance, reason |-> reason,
     unit_cost |-> unit_cost,
     from_warehouse |-> from_warehouse, to_warehouse |-> to_warehouse]

\* rows of another open transaction: written there, not yet committed
LockedByOther(p, k) == \E o \in Procs \ {p} : k \in DOMAIN tx[o].recs

\* StockRecord.objects.get_or_create(product, warehouse, defaults current_quantity=0)
get_or_create(recs, k) ==
    IF recs[k].exists THEN recs ELSE [recs EXCEPT ![k] = NewRecord]

Commit_InsertsOnly(recs, t) ==
    [k \in StockKeys |-> IF k \in DOMAIN t.recs /\ ~recs[k].exists
                         THEN [NewRecord EXCEPT !.current_quantity = t.recs[k]]
                         ELSE recs[k]]

\* the committed tables after a transaction's buffer is applied: the rows it
\* wrote, inserted where the pair had none
Commit(recs, t) ==
    [k \in StockKeys |-> IF k \in DOMAIN t.recs
                         THEN IF recs[k].exists
                              THEN [recs[k] EXCEPT !.current_quantity = t.recs[k]]
                              ELSE [NewRecord EXCEPT !.current_quantity = t.recs[k]]
                         ELSE recs[k]]

ResultingBalance_OutAdds(current, movement_type, quantity) ==
    IF movement_type = "TRANSFER" THEN current ELSE current + quantity

\* StockMovement.save, new row: resulting_balance from the in-memory balance
ResultingBalance(current, movement_type, quantity) ==
    IF movement_type = "IN" THEN current + quantity
    ELSE IF movement_type = "OUT" THEN current - quantity
    ELSE current

\* StockRecord.calculate_quantity_from_movements: Sum(Case(IN: +q, OUT: -q, default 0))
RECURSIVE SumSigned(_, _)
SumSigned(ms, k) ==
    IF ms = << >> THEN 0
    ELSE LET m == Head(ms)
             term == IF m.stock_record # k THEN 0
                     ELSE IF m.movement_type = "IN" THEN m.quantity
                     ELSE IF m.movement_type = "OUT" THEN -m.quantity
                     ELSE 0
         IN term + SumSigned(Tail(ms), k)

calculate_quantity_from_movements_Unfiltered(k) ==
    LET f[i \in 0..Len(movements)] ==
            IF i = 0 THEN 0
            ELSE f[i - 1] + (IF movements[i].movement_type = "IN"
                             THEN movements[i].quantity
                             ELSE IF movements[i].movement_type = "OUT"
                             THEN -movements[i].quantity
                             ELSE 0)
    IN  f[Len(movements)]

calculate_quantity_from_movements(k) == SumSigned(movements, k)

\* write requests that reached the ledger: every row but the destination-side
\* rows of transfers, which create writes with reason "transfer"
Written(ms) == Cardinality({i \in 1..Len(ms) : ms[i].reason # "transfer"})

\* write requests in flight: validated, not yet committed or failed
InFlight ==
    Cardinality({p \in Procs : pc[p] \in {"create", "transfer_dest", "adjust_save",
                                          "insert", "get_again"}})

Room(cap) == Written(movements) + InFlight < cap

\* ------------------------------------------------------------------ Init
Init ==
    /\ records = [k \in StockKeys |-> NoRecord]
    /\ movements = << >>
    /\ pc = [p \in Procs |-> "idle"]
    /\ req = [p \in Procs |-> NoReq]
    /\ obj = [p \in Procs |-> NoObj]
    /\ tx = [p \in Procs |-> NoTx]
    /\ resp = [p \in Procs |-> NoResp]
    /\ nedits = 0
    /\ warehouses = [w \in WarehouseRows |->
                        IF w \in Warehouses
                        THEN [exists |-> TRUE, is_main |-> w \in MainWarehouses,
                              is_active |-> TRUE]
                        ELSE NoWarehouseRow]
    /\ products = [x \in Products |-> [is_active |-> TRUE]]

\* --------------------------------------------- POST /api/stock-movements/
validate_WithoutStockCheck(attrs, stock_record) ==
    IF ProductCompany[attrs.product] # UserCompany THEN "product_company"
    ELSE IF WarehouseCompany[attrs.warehouse] # UserCompany THEN "warehouse_company"
    ELSE IF attrs.movement_type = "TRANSFER" /\ attrs.to_warehouse = NoWarehouse
        THEN "transfer_requires_destination"
    ELSE IF attrs.movement_type = "TRANSFER" /\ attrs.warehouse = attrs.to_warehouse
        THEN "same_warehouse"
    ELSE IF attrs.movement_type = "TRANSFER"
            /\ WarehouseCompany[attrs.to_warehouse] # UserCompany
        THEN "to_warehouse_company"
    ELSE "valid"

validate_WithoutDestinationCheck(attrs, stock_record) ==
    IF ProductCompany[attrs.product] # UserCompany THEN "product_company"
    ELSE IF WarehouseCompany[attrs.warehouse] # UserCompany THEN "warehouse_company"
    ELSE IF attrs.movement_type = "OUT" /\ attrs.quantity > stock_record.current_quantity
        THEN "insufficient_stock"
    ELSE IF attrs.movement_type = "TRANSFER" /\ attrs.to_warehouse = NoWarehouse
        THEN "valid"
    ELSE IF attrs.movement_type = "TRANSFER" /\ attrs.warehouse = attrs.to_warehouse
        THEN "valid"
    ELSE IF attrs.movement_type = "TRANSFER"
            /\ WarehouseCompany[attrs.to_warehouse] # UserCompany
        THEN "to_warehouse_company"
    ELSE "valid"

\* StockMovementCreateSerializer.validate: the status it ends with
validate(attrs, stock_record) ==
    IF ProductCompany[attrs.product] # UserCompany THEN "product_company"
    ELSE IF WarehouseCompany[attrs.warehouse] # UserCompany THEN "warehouse_company"
    ELSE IF attrs.movement_type = "OUT" /\ attrs.quantity > stock_record.current_quantity
        THEN "insufficient_stock"
    ELSE IF attrs.movement_type = "TRANSFER" /\ attrs.to_warehouse = NoWarehouse
        THEN "transfer_requires_destination"
    ELSE IF attrs.movement_type = "TRANSFER" /\ attrs.warehouse = attrs.to_warehouse
        THEN "same_warehouse"
    ELSE IF attrs.movement_type = "TRANSFER"
            /\ WarehouseCompany[attrs.to_warehouse] # UserCompany
        THEN "to_warehouse_company"
    ELSE "valid"

\* is_valid() on a request body: the company checks run before get_or_create,
\* which commits at once (validate runs outside the atomic block of create)
MovementValidate(p, cap, product, warehouse, movement_type, quantity, reason, unit_cost, to_warehouse) ==
    /\ pc[p] = "idle"
    /\ LET attrs == [NoReq EXCEPT !.kind = "movement", !.product = product,
                        !.warehouse = warehouse, !.movement_type = movement_type,
                        !.quantity = quantity, !.reason = reason,
                        !.unit_cost = unit_cost, !.to_warehouse = to_warehouse]
           k == <<product, warehouse>>
           sameCompany == /\ ProductCompany[product] = UserCompany
                          /\ WarehouseCompany[warehouse] = UserCompany
           recs == IF sameCompany THEN get_or_create(records, k) ELSE records
           status == validate(attrs, recs[k])
       IN  /\ sameCompany /\ ~records[k].exists => ~LockedByOther(p, k)
           /\ status = "valid" => Room(cap)
           /\ records' = recs
           /\ req' = [req EXCEPT ![p] = attrs]
           /\ IF status = "valid"
              THEN /\ pc' = [pc EXCEPT ![p] = "create"]
                   /\ obj' = [obj EXCEPT ![p] =
                                [NoObj EXCEPT !.current_quantity = recs[k].current_quantity]]
                   /\ resp' = resp
              ELSE /\ pc' = [pc EXCEPT ![p] = "done"]
                   /\ obj' = obj
                   /\ resp' = [resp EXCEPT ![p] =
                                [Response(status) EXCEPT
                                   !.available = recs[k].current_quantity]]
    /\ UNCHANGED <<movements, tx, nedits, catalog>>

\* StockMovementCreateSerializer.create for IN and OUT: one movement row, and
\* StockMovement.save writes the in-memory balance back to the StockRecord
MovementCreate(p) ==
    /\ pc[p] = "create"
    /\ req[p].movement_type # "TRANSFER"
    /\ LET k == <<req[p].product, req[p].warehouse>>
           balance == ResultingBalance(obj[p].current_quantity,
                                       req[p].movement_type, req[p].quantity)
           m == Movement(k, req[p].movement_type, req[p].quantity, balance,
                         req[p].reason, req[p].unit_cost, NoWarehouse,
                         req[p].to_warehouse)
       IN  /\ ~LockedByOther(p, k)
           /\ movements' = Append(movements, m)
           /\ records' = [records EXCEPT ![k].current_quantity = balance]
           /\ obj' = [obj EXCEPT ![p].current_quantity = balance]
           /\ resp' = [resp EXCEPT ![p] =
                         [Response("created") EXCEPT !.resulting_balance = balance,
                                                     !.id = Len(movements) + 1]]
    /\ pc' = [pc EXCEPT ![p] = "done"]
    /\ UNCHANGED <<req, tx, nedits, catalog>>

debit_missing(current_quantity, quantity) == current_quantity

\* create: stock_record.current_quantity -= quantity
debit(current_quantity, quantity) == current_quantity - quantity

\* create for TRANSFER, origin side, inside transaction.atomic: the TRANSFER row
\* (StockMovement.save leaves the balance as it is), then
\* stock_record.current_quantity -= quantity and its save, then get_or_create
\* of the destination StockRecord
TransferOriginLeg(p) ==
    /\ pc[p] = "create"
    /\ req[p].movement_type = "TRANSFER"
    /\ LET k == <<req[p].product, req[p].warehouse>>
           dk == <<req[p].product, req[p].to_warehouse>>
           balance == ResultingBalance(obj[p].current_quantity, "TRANSFER", req[p].quantity)
           m == Movement(k, "TRANSFER", req[p].quantity, balance, req[p].reason,
                         req[p].unit_cost, req[p].warehouse, req[p].to_warehouse)
           debited == debit(balance, req[p].quantity)
           created == ~records[dk].exists
       IN  /\ ~LockedByOther(p, k)
           /\ created => ~LockedByOther(p, dk)
           /\ tx' = [tx EXCEPT ![p] =
                       [recs |-> IF created THEN (k :> debited) @@ (dk :> 0)
                                 ELSE (k :> debited),
                        movs |-> <<m>>]]
           /\ obj' = [obj EXCEPT ![p].current_quantity = debited,
                                 ![p].dest_quantity = records[dk].current_quantity]
    /\ pc' = [pc EXCEPT ![p] = "transfer_dest"]
    /\ UNCHANGED <<records, movements, req, resp, nedits, catalog>>

destination_unit_cost_Dropped(validated_data) == NoUnitCost

\* create: unit_cost=validated_data.get("unit_cost", "") of the destination row
destination_unit_cost(validated_data) == validated_data.unit_cost

\* create for TRANSFER, destination side: the IN row with reason "transfer";
\* StockMovement.save credits the destination; the atomic block commits
TransferDestinationLeg(p) ==
    /\ pc[p] = "transfer_dest"
    /\ LET dk == <<req[p].product, req[p].to_warehouse>>
           balance == ResultingBalance(obj[p].dest_quantity, "IN", req[p].quantity)
           m == Movement(dk, "IN", req[p].quantity, balance, "transfer",
                         destination_unit_cost(req[p]), req[p].warehouse, req[p].to_warehouse)
           t == [recs |-> (dk :> balance) @@ tx[p].recs,
                 movs |-> Append(tx[p].movs, m)]
       IN  /\ ~LockedByOther(p, dk)
           /\ records' = Commit(records, t)
           /\ movements' = movements \o t.movs
           /\ obj' = [obj EXCEPT ![p].dest_quantity = balance]
           /\ resp' = [resp EXCEPT ![p] =
                         [Response("created") EXCEPT
                            !.resulting_balance = tx[p].movs[1].resulting_balance,
                            !.id = Len(movements) + 1]]
    /\ tx' = [tx EXCEPT ![p] = NoTx]
    /\ pc' = [pc EXCEPT ![p] = "done"]
    /\ UNCHANGED <<req, nedits, catalog>>

AfterAbort_NotAtomic(recs, movs, t) ==
    [records |-> Commit(recs, t), movements |-> movs \o t.movs]

\* @transaction.atomic on create: the committed tables once an exception has
\* left the block
AfterAbort(recs, movs, t) == [records |-> recs, movements |-> movs]

\* the destination-side write raises (database error, deadlock victim, ...)
TransferDestinationFails(p) ==
    /\ pc[p] = "transfer_dest"
    /\ LET after == AfterAbort(records, movements, tx[p])
       IN  /\ records' = after.records
           /\ movements' = after.movements
    /\ tx' = [tx EXCEPT ![p] = NoTx]
    /\ resp' = [resp EXCEPT ![p] = Response("server_error")]
    /\ pc' = [pc EXCEPT ![p] = "done"]
    /\ UNCHANGED <<req, obj, nedits, catalog>>

\* ---------------------------------- POST /api/stock-movements/adjustment/
adjustment_status_NoOpAccepted(product, warehouse, difference) ==
    IF ProductCompany[product] # UserCompany THEN "product_company"
    ELSE IF WarehouseCompany[warehouse] # UserCompany THEN "warehouse_company"
    ELSE "valid"

\* the company checks of StockAdjustmentSerializer.validate, then the
\* "difference == 0" test of create
adjustment_status(product, warehouse, difference) ==
    IF ProductCompany[product] # UserCompany THEN "product_company"
    ELSE IF WarehouseCompany[warehouse] # UserCompany THEN "warehouse_company"
    ELSE IF difference = 0 THEN "no_op"
    ELSE "valid"

\* StockAdjustmentSerializer.validate, then create up to the no-op test:
\* get_or_create runs inside the atomic block
AdjustmentBegin(p, cap, product, warehouse, new_quantity) ==
    /\ pc[p] = "idle"
    /\ LET attrs == [NoReq EXCEPT !.kind = "adjustment", !.product = product,
                       !.warehouse = warehouse, !.new_quantity = new_quantity]
           k == <<product, warehouse>>
           sameCompany == /\ ProductCompany[product] = UserCompany
                          /\ WarehouseCompany[warehouse] = UserCompany
           created == sameCompany /\ ~records[k].exists
           current_quantity == records[k].current_quantity
           difference == new_quantity - current_quantity
           status == adjustment_status(product, warehouse, difference)
       IN  /\ created => ~LockedByOther(p, k)
           /\ status = "valid" => Room(cap)
           /\ req' = [req EXCEPT ![p] = attrs]
           /\ IF status = "valid"
              THEN /\ pc' = [pc EXCEPT ![p] = "adjust_save"]
                   /\ obj' = [obj EXCEPT ![p] =
                                [NoObj EXCEPT !.current_quantity = current_quantity]]
                   /\ tx' = [tx EXCEPT ![p] =
                               [NoTx EXCEPT !.recs = IF created THEN (k :> 0)
                                                     ELSE NoTx.recs]]
                   /\ resp' = resp
              ELSE /\ pc' = [pc EXCEPT ![p] = "done"]
                   /\ obj' = obj
                   /\ tx' = tx
                   /\ resp' = [resp EXCEPT ![p] = Response(status)]
    /\ UNCHANGED <<records, movements, nedits, catalog>>

\* create, from "Determine movement type" on: the adjustment row;
\* StockMovement.save writes the balance; the atomic block commits
AdjustmentSave(p) ==
    /\ pc[p] = "adjust_save"
    /\ LET k == <<req[p].product, req[p].warehouse>>
           difference == req[p].new_quantity - obj[p].current_quantity
           movement_type == IF difference > 0 THEN "IN" ELSE "OUT"
           quantity == Abs(difference)
           balance == ResultingBalance(obj[p].current_quantity, movement_type, quantity)
           m == Movement(k, movement_type, quantity, balance, "adjustment",
                         NoUnitCost, NoWarehouse, NoWarehouse)
       IN  /\ ~LockedByOther(p, k)
           /\ records' = Commit(records, [recs |-> (k :> balance), movs |-> <<m>>])
           /\ movements' = Append(movements, m)
           /\ obj' = [obj EXCEPT ![p].current_quantity = balance]
           /\ resp' = [resp EXCEPT ![p] =
                         [Response("created") EXCEPT !.resulting_balance = balance,
                                                     !.id = Len(movements) + 1]]
    /\ tx' = [tx EXCEPT ![p] = NoTx]
    /\ pc' = [pc EXCEPT ![p] = "done"]
    /\ UNCHANGED <<req, nedits, catalog>>

\* ------------------------------------ get_or_create, statement by statement
\* QuerySet.get_or_create: self.get(**kwargs) raises DoesNotExist; the request
\* is a create-movement request (kind "movement") or an adjustment
GetOrCreateMisses(p, cap, attrs) ==
    /\ pc[p] = "idle"
    /\ ProductCompany[attrs.product] = UserCompany
    /\ WarehouseCompany[attrs.warehouse] = UserCompany
    /\ ~records[<<attrs.product, attrs.warehouse>>].exists
    /\ Room(cap)
    /\ req' = [req EXCEPT ![p] = attrs]
    /\ pc' = [pc EXCEPT ![p] = "insert"]
    /\ UNCHANGED <<records, movements, obj, tx, resp, nedits, catalog>>

insert_outcome_Unconstrained(recs, k) == "created"

\* the INSERT of get_or_create under unique_together (product, warehouse)
insert_outcome(recs, k) ==
    IF recs[k].exists THEN "IntegrityError" ELSE "created"

\* the StockRecord table with one more row for the pair
inserted(recs, k) ==
    [recs EXCEPT ![k] = IF recs[k].exists
                        THEN [recs[k] EXCEPT !.rows = recs[k].rows + 1]
                        ELSE NewRecord]

\* the rest of the handler once get_or_create has returned the StockRecord:
\* validate for a movement, the no-op test of create for an adjustment
Loaded(p, current_quantity) ==
    LET stock_record == [NewRecord EXCEPT !.current_quantity = current_quantity]
        status == IF req[p].kind = "movement"
                  THEN validate(req[p], stock_record)
                  ELSE adjustment_status(req[p].product, req[p].warehouse,
                                         req[p].new_quantity - current_quantity)
    IN  IF status = "valid"
        THEN /\ pc' = [pc EXCEPT ![p] = IF req[p].kind = "movement"
                                        THEN "create" ELSE "adjust_save"]
             /\ obj' = [obj EXCEPT ![p] =
                          [NoObj EXCEPT !.current_quantity = current_quantity]]
             /\ resp' = resp
        ELSE /\ pc' = [pc EXCEPT ![p] = "done"]
             /\ obj' = obj
             /\ resp' = [resp EXCEPT ![p] =
                          IF req[p].kind = "movement"
                          THEN [Response(status) EXCEPT !.available = current_quantity]
                          ELSE Response(status)]

\* get_or_create: self.create(**params) in a savepoint. The insert waits for
\* an open transaction that inserted the pair. A movement request inserts in
\* autocommit; an adjustment inserts inside the atomic block of create, and a
\* no-op adjustment rolls its insert back
RecordInsert(p) ==
    /\ pc[p] = "insert"
    /\ LET k == <<req[p].product, req[p].warehouse>>
           outcome == insert_outcome(records, k)
       IN  /\ ~LockedByOther(p, k)
           /\ IF outcome = "IntegrityError"
              THEN /\ pc' = [pc EXCEPT ![p] = "get_again"]
                   /\ UNCHANGED <<records, obj, tx, resp>>
              ELSE /\ Loaded(p, NewRecord.current_quantity)
                   /\ IF req[p].kind = "movement"
                      THEN /\ records' = inserted(records, k)
                           /\ tx' = tx
                      ELSE /\ records' = records
                           /\ tx' = [tx EXCEPT ![p] =
                                       [NoTx EXCEPT !.recs =
                                          IF pc'[p] = "adjust_save" THEN (k :> 0)
                                          ELSE NoTx.recs]]
    /\ UNCHANGED <<movements, req, nedits, catalog>>

\* get_or_create after IntegrityError: self.get(**kwargs) returns the row that
\* the other request committed
RecordGetAgain(p) ==
    /\ pc[p] = "get_again"
    /\ LET k == <<req[p].product, req[p].warehouse>>
       IN  /\ records[k].exists
           /\ Loaded(p, records[k].current_quantity)
    /\ UNCHANGED <<records, movements, req, tx, nedits, catalog>>

\* ------------------------------- POST /api/stock-records/{id}/reconcile/
\* StockRecordViewSet.reconcile: get_object loads the StockRecord
ReconcileGet(p, k) ==
    /\ pc[p] = "idle"
    /\ records[k].exists
    /\ ProductCompany[k[1]] = UserCompany
    /\ req' = [req EXCEPT ![p] =
                 [NoReq EXCEPT !.kind = "reconcile", !.product = k[1], !.warehouse = k[2]]]
    /\ obj' = [obj EXCEPT ![p] =
                 [NoObj EXCEPT !.current_quantity = records[k].current_quantity]]
    /\ pc' = [pc EXCEPT ![p] = "reconcile_calc"]
    /\ UNCHANGED <<records, movements, tx, resp, nedits, catalog>>

\* StockRecord.reconcile: the aggregate query and the comparison
ReconcileCalculate(p) ==
    /\ pc[p] = "reconcile_calc"
    /\ LET k == <<req[p].product, req[p].warehouse>>
           calculated == calculate_quantity_from_movements(k)
       IN  IF obj[p].current_quantity # calculated
           THEN /\ obj' = [obj EXCEPT ![p].calculated = calculated]
                /\ pc' = [pc EXCEPT ![p] = "reconcile_save"]
                /\ resp' = resp
           ELSE /\ obj' = obj
                /\ pc' = [pc EXCEPT ![p] = "done"]
                /\ resp' = [resp EXCEPT ![p] = Response("not_reconciled")]
    /\ UNCHANGED <<records, movements, req, tx, nedits, catalog>>

reconciled_quantity_Added(current_quantity, calculated) ==
    current_quantity + calculated

\* StockRecord.reconcile: self.current_quantity = calculated
reconciled_quantity(current_quantity, calculated) == calculated

\* StockRecord.reconcile: self.save() of the calculated value, and the view's
\* Response with old_quantity, new_quantity and difference
ReconcileSave(p) ==
    /\ pc[p] = "reconcile_save"
    /\ LET k == <<req[p].product, req[p].warehouse>>
           old_quantity == obj[p].current_quantity
           new_quantity == reconciled_quantity(obj[p].current_quantity,
                                               obj[p].calculated)
       IN  /\ ~LockedByOther(p, k)
           /\ records' = [records EXCEPT ![k].current_quantity = new_quantity]
           /\ obj' = [obj EXCEPT ![p].current_quantity = new_quantity]
           /\ resp' = [resp EXCEPT ![p] =
                         [Response("reconciled") EXCEPT
                            !.old_quantity = old_quantity,
                            !.new_quantity = new_quantity,
                            !.difference = new_quantity - old_quantity]]
    /\ pc' = [pc EXCEPT ![p] = "done"]
    /\ UNCHANGED <<movements, req, tx, nedits, catalog>>

\* the caller of a reconcile request sends it again for the same StockRecord
\* as soon as the answer is there: get_object loads the record anew
ReconcileAgain(p) ==
    /\ pc[p] = "done"
    /\ req[p].kind = "reconcile"
    /\ LET k == <<req[p].product, req[p].warehouse>>
       IN  obj' = [obj EXCEPT ![p] =
                     [NoObj EXCEPT !.current_quantity = records[k].current_quantity]]
    /\ req' = [req EXCEPT ![p].kind = "reconcile_again"]
    /\ resp' = [resp EXCEPT ![p] = NoResp]
    /\ pc' = [pc EXCEPT ![p] = "reconcile_calc"]
    /\ UNCHANGED <<records, movements, tx, nedits, catalog>>

\* --------------------------- PUT, PATCH /api/stock-movements/{id}/
\* (ModelViewSet.update and partial_update are not overridden)
Absent == "-"
AbsentRecord == <<"-", "-">>

\* StockMovementSerializer.validate on the fields the request sends:
\* attrs.get gives None for a field that is not sent
StockMovementSerializer_validate(attrs) ==
    IF attrs.movement_type = "OUT"
    THEN IF attrs.quantity = 0 \/ attrs.stock_record = AbsentRecord
         THEN "server_error"
         ELSE IF attrs.quantity > records[attrs.stock_record].current_quantity
         THEN "insufficient_stock"
         ELSE "valid"
    ELSE IF attrs.movement_type = "TRANSFER"
    THEN IF attrs.from_warehouse \in {Absent, NoWarehouse}
            \/ attrs.to_warehouse \in {Absent, NoWarehouse}
         THEN "transfer_requires_warehouses"
         ELSE IF attrs.from_warehouse = attrs.to_warehouse
         THEN "same_warehouse"
         ELSE "valid"
    ELSE "valid"

\* ModelSerializer.update: setattr for every field sent, then instance.save(),
\* which for a row that has a pk writes the row and nothing else
update(instance, attrs) ==
    [instance EXCEPT
       !.stock_record = IF attrs.stock_record = AbsentRecord THEN @ ELSE attrs.stock_record,
       !.movement_type = IF attrs.movement_type = Absent THEN @ ELSE attrs.movement_type,
       !.quantity = IF attrs.quantity = 0 THEN @ ELSE attrs.quantity,
       !.from_warehouse = IF attrs.from_warehouse = Absent THEN @ ELSE attrs.from_warehouse,
       !.to_warehouse = IF attrs.to_warehouse = Absent THEN @ ELSE attrs.to_warehouse]

\* request bodies of the modelled callers: one field, or the fields that the
\* validation of OUT and of TRANSFER reads
PatchInputs ==
    { a \in [stock_record : (OwnProducts \X OwnWarehouses) \cup {AbsentRecord},
             movement_type : MOVEMENT_TYPE_CHOICES \cup {Absent},
             quantity : 0..MaxQuantity,
             from_warehouse : {Absent, "A"},
             to_warehouse : {Absent, "A", "B"}] :
        LET sent == (IF a.stock_record = AbsentRecord THEN 0 ELSE 1)
                    + (IF a.movement_type = Absent THEN 0 ELSE 1)
                    + (IF a.quantity = 0 THEN 0 ELSE 1)
                    + (IF a.from_warehouse = Absent THEN 0 ELSE 1)
                    + (IF a.to_warehouse = Absent THEN 0 ELSE 1)
        IN  \/ sent = 1
            \/ /\ sent = 3 /\ a.movement_type = "OUT"
               /\ a.quantity # 0 /\ a.stock_record # AbsentRecord
            \/ /\ sent = 3 /\ a.movement_type = "TRANSFER"
               /\ a.from_warehouse # Absent /\ a.to_warehouse # Absent }

MovementUpdate(p, id, patch) ==
    /\ pc[p] = "idle"
    /\ nedits < MaxEdits
    /\ id \in 1..Len(movements)
    /\ ProductCompany[movements[id].stock_record[1]] = UserCompany
    /\ patch.stock_record # AbsentRecord => records[patch.stock_record].exists
    /\ LET status == StockMovementSerializer_validate(patch)
       IN  /\ req' = [req EXCEPT ![p] = [NoReq EXCEPT !.kind = "update", !.id = id,
                                                      !.patch = patch]]
           /\ IF status = "valid"
              THEN /\ movements' = [movements EXCEPT ![id] = update(@, patch)]
                   /\ resp' = [resp EXCEPT ![p] = Response("updated")]
                   /\ nedits' = nedits + 1
              ELSE /\ movements' = movements
                   /\ resp' = [resp EXCEPT ![p] = Response(status)]
                   /\ nedits' = nedits
    /\ pc' = [pc EXCEPT ![p] = "done"]
    /\ UNCHANGED <<records, obj, tx, catalog>>

\* ------------------------------- DELETE /api/stock-movements/{id}/
\* StockMovementViewSet.destroy: a 400 Response, no query at all
MovementDestroy(p, id) ==
    /\ pc[p] = "idle"
    /\ req' = [req EXCEPT ![p] = [NoReq EXCEPT !.kind = "destroy", !.id = id]]
    /\ resp' = [resp EXCEPT ![p] = Response("cannot_delete")]
    /\ pc' = [pc EXCEPT ![p] = "done"]
    /\ UNCHANGED <<records, movements, obj, tx, nedits, catalog>>

\* ------------------------------ POST, PUT, PATCH /api/warehouses/
unflag_others_OfNoCompany(rows, company, w) == rows

\* Warehouse.save, is_main set: Warehouse.objects.filter(company=self.company,
\* is_main=True).exclude(pk=self.pk).update(is_main=False)
unflag_others(rows, company, w) ==
    [r \in WarehouseRows |->
        IF rows[r].exists /\ RowCompany[r] = company /\ rows[r].is_main /\ r # w
        THEN [rows[r] EXCEPT !.is_main = FALSE]
        ELSE rows[r]]

\* WarehouseSerializer.create: the company is the caller's; Warehouse.save up
\* to super().save()
WarehouseCreate(p, company, w, is_main, is_active) ==
    /\ pc[p] = "idle"
    /\ RowCompany[w] = company
    /\ ~warehouses[w].exists
    /\ req' = [req EXCEPT ![p] =
                 [NoReq EXCEPT !.kind = "warehouse_create", !.warehouse = w,
                               !.company = company, !.is_main = is_main,
                               !.is_active = is_active]]
    /\ warehouses' = IF is_main THEN unflag_others(warehouses, company, w)
                     ELSE warehouses
    /\ pc' = [pc EXCEPT ![p] = "warehouse_save"]
    /\ UNCHANGED <<records, movements, obj, tx, resp, nedits, products>>

\* WarehouseViewSet update and partial_update: get_object on the caller's
\* active warehouses, the fields are set, then Warehouse.save up to
\* super().save()
WarehouseUpdate(p, company, w, is_main, is_active) ==
    /\ pc[p] = "idle"
    /\ req' = [req EXCEPT ![p] =
                 [NoReq EXCEPT !.kind = "warehouse_update", !.warehouse = w,
                               !.company = company, !.is_main = is_main,
                               !.is_active = is_active]]
    /\ IF warehouses[w].exists /\ warehouses[w].is_active /\ RowCompany[w] = company
       THEN /\ warehouses' = IF is_main THEN unflag_others(warehouses, company, w)
                             ELSE warehouses
            /\ pc' = [pc EXCEPT ![p] = "warehouse_save"]
            /\ resp' = resp
       ELSE /\ warehouses' = warehouses
            /\ pc' = [pc EXCEPT ![p] = "done"]
            /\ resp' = [resp EXCEPT ![p] = Response("not_found")]
    /\ UNCHANGED <<records, movements, obj, tx, nedits, products>>

\* Warehouse.save: super().save() writes the row
WarehouseSave(p) ==
    /\ pc[p] = "warehouse_save"
    /\ warehouses' = [warehouses EXCEPT ![req[p].warehouse] =
                        [exists |-> TRUE, is_main |-> req[p].is_main,
                         is_active |-> req[p].is_active]]
    /\ resp' = [resp EXCEPT ![p] =
                  Response(IF req[p].kind = "warehouse_create" THEN "created"
                           ELSE IF req[p].kind = "warehouse_destroy" THEN "deleted"
                           ELSE "updated")]
    /\ pc' = [pc EXCEPT ![p] = "done"]
    /\ UNCHANGED <<records, movements, req, obj, tx, nedits, products>>

\* WarehouseViewSet.get_queryset: the caller's active warehouses
InWarehouseQueryset(company, w) ==
    warehouses[w].exists /\ warehouses[w].is_active /\ RowCompany[w] = company

\* destroy: instance.stock_records.filter(is_active=True,
\* current_quantity__gt=0).exists()
has_stock(recs, w) ==
    \E k \in StockKeys : k[2] = w /\ recs[k].exists /\ recs[k].current_quantity > 0

\* WarehouseViewSet.destroy: get_object, the stock check, is_active = False,
\* then Warehouse.save up to super().save()
WarehouseDestroy(p, company, w) ==
    /\ pc[p] = "idle"
    /\ req' = [req EXCEPT ![p] =
                 [NoReq EXCEPT !.kind = "warehouse_destroy", !.warehouse = w,
                               !.company = company,
                               !.is_main = warehouses[w].is_main,
                               !.is_active = FALSE]]
    /\ IF ~InWarehouseQueryset(company, w)
       THEN /\ warehouses' = warehouses
            /\ pc' = [pc EXCEPT ![p] = "done"]
            /\ resp' = [resp EXCEPT ![p] = Response("not_found")]
       ELSE IF has_stock(records, w)
       THEN /\ warehouses' = warehouses
            /\ pc' = [pc EXCEPT ![p] = "done"]
            /\ resp' = [resp EXCEPT ![p] = Response("cannot_delete_with_stock")]
       ELSE /\ warehouses' = IF warehouses[w].is_main
                             THEN unflag_others(warehouses, company, w)
                             ELSE warehouses
            /\ pc' = [pc EXCEPT ![p] = "warehouse_save"]
            /\ resp' = resp
    /\ UNCHANGED <<records, movements, obj, tx, nedits, products>>

\* ------------------------------ DELETE, PUT, PATCH /api/products/{id}/
\* Product.get_total_stock: Sum of current_quantity over the product's
\* StockRecords (0 when it has none)
get_total_stock(x) ==
    LET SumOver[S \in SUBSET Warehouses] ==
            IF S = {} THEN 0
            ELSE LET w == CHOOSE v \in S : TRUE
                 IN  (IF records[<<x, w>>].exists
                      THEN records[<<x, w>>].current_quantity ELSE 0)
                     + SumOver[S \ {w}]
    IN  SumOver[Warehouses]

\* ProductViewSet.get_queryset: the caller's active products
InProductQueryset(x) == ProductCompany[x] = UserCompany /\ products[x].is_active

\* ProductViewSet.destroy: refused while get_total_stock() > 0, else
\* is_active = False and save
ProductDestroy(p, x) ==
    /\ pc[p] = "idle"
    /\ req' = [req EXCEPT ![p] = [NoReq EXCEPT !.kind = "product_destroy",
                                                !.product = x]]
    /\ IF ~InProductQueryset(x)
       THEN /\ products' = products
            /\ resp' = [resp EXCEPT ![p] = Response("not_found")]
       ELSE IF get_total_stock(x) > 0
       THEN /\ products' = products
            /\ resp' = [resp EXCEPT ![p] = Response("cannot_delete_with_stock")]
       ELSE /\ products' = [products EXCEPT ![x].is_active = FALSE]
            /\ resp' = [resp EXCEPT ![p] = Response("deleted")]
    /\ pc' = [pc EXCEPT ![p] = "done"]
    /\ UNCHANGED <<records, movements, obj, tx, nedits, warehouses>>

\* ProductViewSet update and partial_update with ProductSerializer, whose
\* is_active field is writable: the field is set and the row saved
ProductUpdate(p, x, is_active) ==
    /\ pc[p] = "idle"
    /\ req' = [req EXCEPT ![p] = [NoReq EXCEPT !.kind = "product_update",
                                                !.product = x,
                                                !.is_active = is_active]]
    /\ IF ~InProductQueryset(x)
       THEN /\ products' = products
            /\ resp' = [resp EXCEPT ![p] = Response("not_found")]
       ELSE /\ products' = [products EXCEPT ![x].is_active = is_active]
            /\ resp' = [resp EXCEPT ![p] = Response("updated")]
    /\ pc' = [pc EXCEPT ![p] = "done"]
    /\ UNCHANGED <<records, movements, obj, tx, nedits, warehouses>>

\* ------------------- POST /api/products/validate-specifications/
\* str.strip() on the characters of a str
strip(s) ==
    LET kept == {i \in 1..Len(s) : s[i] # " "}
    IN  IF kept = {} THEN << >>
        ELSE SubSeq(s, CHOOSE i \in kept : \A j \in kept : i <= j,
                       CHOOSE i \in kept : \A j \in kept : i >= j)

UpperCase == <<"A", "B", "C", "D", "E", "F", "G", "H", "I", "J", "K", "L", "M",
               "N", "O", "P", "Q", "R", "S", "T", "U", "V", "W", "X", "Y", "Z">>
LowerCase == <<"a", "b", "c", "d", "e", "f", "g", "h", "i", "j", "k", "l", "m",
               "n", "o", "p", "q", "r", "s", "t", "u", "v", "w", "x", "y", "z">>

\* str.lower()
lower(s) ==
    [i \in 1..Len(s) |->
        IF \E j \in 1..Len(UpperCase) : UpperCase[j] = s[i]
        THEN LowerCase[CHOOSE j \in 1..Len(UpperCase) : UpperCase[j] = s[i]]
        ELSE s[i]]

DigitChars == <<"0", "1", "2", "3", "4", "5", "6", "7", "8", "9">>
IsDigit(c) == \E j \in 1..Len(DigitChars) : DigitChars[j] = c
DigitOf(c) == (CHOOSE j \in 1..Len(DigitChars) : DigitChars[j] = c) - 1
IsDigits(s) == s # << >> /\ \A i \in 1..Len(s) : IsDigit(s[i])

\* the number that a str of digits denotes
ParseDigits(s) ==
    LET f[i \in 0..Len(s)] == IF i = 0 THEN 0 ELSE f[i - 1] * 10 + DigitOf(s[i])
    IN  f[Len(s)]

\* str() of a number that is not negative
RECURSIVE ToDigits(_)
ToDigits(n) ==
    IF n < 10 THEN <<DigitChars[n + 1]>>
    ELSE ToDigits(n \div 10) \o <<DigitChars[(n % 10) + 1]>>

\* the outcome of a conversion: the converted value, or the ValidationError
Converted(value) == [ok |-> TRUE, value |-> value]
Invalid == [ok |-> FALSE, value |-> Null]

\* float(value); the strs of the modelled callers carry no sign, fraction or
\* exponent, so a str parses when it is digits within whitespace
float(value) ==
    IF value.t = "int" THEN Converted(FloatValue(value.n))
    ELSE IF value.t = "float" THEN Converted(value)
    ELSE IF value.t = "bool" THEN Converted(FloatValue(IF value.b THEN 1 ELSE 0))
    ELSE IF value.t = "str" /\ IsDigits(strip(value.s))
        THEN Converted(FloatValue(ParseDigits(strip(value.s))))
    ELSE Invalid

\* str(Decimal(str(value))): str(True) is "True", which is no decimal
decimal(value) ==
    IF value.t = "int" THEN Converted(StrValue(ToDigits(value.n)))
    ELSE IF value.t = "float" THEN Converted(StrValue(ToDigits(value.n) \o <<".", "0">>))
    ELSE IF value.t = "str" /\ IsDigits(strip(value.s))
        THEN Converted(StrValue(ToDigits(ParseDigits(strip(value.s)))))
    ELSE Invalid

TrueWords == {<<"t", "r", "u", "e">>, <<"1">>, <<"y", "e", "s">>, <<"s", "i">>,
              <<"s", "í">>}
FalseWords == {<<"f", "a", "l", "s", "e">>, <<"0">>, <<"n", "o">>}

boolean(value) ==
    IF value.t = "bool" THEN Converted(value)
    ELSE IF value.t = "str" /\ strip(lower(value.s)) \in TrueWords THEN Converted(BoolValue(TRUE))
    ELSE IF value.t = "str" /\ strip(lower(value.s)) \in FalseWords THEN Converted(BoolValue(FALSE))
    ELSE Invalid

DaysInMonth(year, month) ==
    IF month \in {4, 6, 9, 11} THEN 30
    ELSE IF month # 2 THEN 31
    ELSE IF year % 4 = 0 /\ (year % 100 # 0 \/ year % 400 = 0) THEN 29
    ELSE 28

\* datetime.strptime with one format, for a str of ten characters with two
\* digits for day and month: where the year stands and the separator
strptime(s, yearFirst, separator) ==
    LET y == IF yearFirst THEN SubSeq(s, 1, 4) ELSE SubSeq(s, 7, 10)
        m == IF yearFirst THEN SubSeq(s, 6, 7) ELSE SubSeq(s, 4, 5)
        d == IF yearFirst THEN SubSeq(s, 9, 10) ELSE SubSeq(s, 1, 2)
        separators == IF yearFirst THEN {5, 8} ELSE {3, 6}
    IN  IF /\ Len(s) = 10
           /\ \A i \in separators : s[i] = separator
           /\ IsDigits(y) /\ IsDigits(m) /\ IsDigits(d)
           /\ ParseDigits(y) >= 1
           /\ ParseDigits(m) \in 1..12
           /\ ParseDigits(d) \in 1..DaysInMonth(ParseDigits(y), ParseDigits(m))
        THEN Converted(StrValue(y \o <<"-">> \o m \o <<"-">> \o d))
        ELSE Invalid

\* the formats "%Y-%m-%d", "%d-%m-%Y", "%d/%m/%Y" in turn, then strftime("%Y-%m-%d")
date(value) ==
    IF value.t # "str" THEN Invalid
    ELSE IF strptime(value.s, TRUE, "-").ok THEN strptime(value.s, TRUE, "-")
    ELSE IF strptime(value.s, FALSE, "-").ok THEN strptime(value.s, FALSE, "-")
    ELSE strptime(value.s, FALSE, "/")

\* ProductSerializer._validate_attribute_value
validate_attribute_value(value, type) ==
    IF type = "text"
    THEN IF value.t = "str" THEN Converted(StrValue(strip(value.s))) ELSE Invalid
    ELSE IF type = "number" THEN float(value)
    ELSE IF type = "decimal" THEN decimal(value)
    ELSE IF type = "boolean" THEN boolean(value)
    ELSE IF type = "date" THEN date(value)
    ELSE Converted(value)

\* Python truth of a value, and value == 0 (False == 0 holds in Python)
Falsy(value) ==
    \/ value.t = "null"
    \/ value.t = "str" /\ value.s = << >>
    \/ value.t \in {"int", "float"} /\ value.n = 0
    \/ value.t = "bool" /\ ~value.b
EqualsZero(value) ==
    \/ value.t \in {"int", "float"} /\ value.n = 0
    \/ value.t = "bool" /\ ~value.b

\* template.template_attributes.filter(is_active=True), by slug
template_slugs(template) ==
    {a \in AttributeSlugs : template[a].exists /\ template[a].is_active}

\* specifications.get(attr_slug)
supplied(specifications, a) ==
    IF a \in DOMAIN specifications THEN specifications[a] ELSE Null

\* validate: "is_required and not attr_value and attr_value != 0 and
\* attr_value != False"
is_missing(template_attr, value) ==
    template_attr.is_required /\ Falsy(value) /\ ~EqualsZero(value)

attr_value_DefaultIgnored(template_attr, value) == value

\* validate: the value that goes on to the type validation, the default_value
\* in the place of a missing required one
attr_value(template_attr, value) ==
    IF is_missing(template_attr, value) /\ template_attr.default_value # << >>
    THEN StrValue(template_attr.default_value)
    ELSE value

\* validate: the attributes that get the "is required" error
required_errors(template, specifications) ==
    {a \in template_slugs(template) :
        /\ is_missing(template[a], supplied(specifications, a))
        /\ attr_value(template[a], supplied(specifications, a))
              = supplied(specifications, a)}

\* validate: the attributes whose value reaches _validate_attribute_value
typed_attributes(template, specifications) ==
    {a \in template_slugs(template) \ required_errors(template, specifications) :
        LET v == attr_value(template[a], supplied(specifications, a))
        IN  v.t # "null" /\ v # StrValue(<< >>)}

unknown_attrs_Accepted(template, specifications) == {}

\* validate: set(specifications.keys()) - template_slugs
unknown_attrs(template, specifications) ==
    DOMAIN specifications \ template_slugs(template)

ErrorDetail(kind, attributes) == [kind |-> kind, attributes |-> attributes]

\* ProductSerializer.validate from "errors = {}" on: the errors dict and the
\* validated_specs dict; the unknown attributes go under the key
\* "specifications" after the loop
ProductSerializer_validate(template, specifications) ==
    LET required == required_errors(template, specifications)
        typed == typed_attributes(template, specifications)
        result == [a \in typed |->
                     validate_attribute_value(
                         attr_value(template[a], supplied(specifications, a)),
                         data_type[a])]
        wrong == {a \in typed : ~result[a].ok}
        unknown == unknown_attrs(template, specifications)
        loop_errors == [a \in required \cup wrong |->
                          IF a \in required THEN ErrorDetail("required", {a})
                          ELSE ErrorDetail("invalid", {a})]
        errors == IF unknown # {}
                  THEN [a \in DOMAIN loop_errors \cup {"specifications"} |->
                          IF a = "specifications" THEN ErrorDetail("unknown", unknown)
                          ELSE loop_errors[a]]
                  ELSE loop_errors
        validated_specs == [a \in typed \ wrong |-> result[a].value]
    IN  [errors |-> errors, validated_specs |-> validated_specs]

\* the TemplateAttribute row of attribute a in a template: none, one that is
\* not active, or an active one, required or not, with or without a default
TemplateAttributeKinds ==
    {"none", "inactive", "optional", "optional_default", "required", "required_default"}

TemplateAttributeRow(a, kind) ==
    IF kind = "none" THEN NoTemplateAttribute
    ELSE [exists |-> TRUE,
          is_active |-> kind # "inactive",
          is_required |-> kind \in {"inactive", "required", "required_default"},
          default_value |-> IF kind \in {"optional_default", "required_default"}
                            THEN DefaultValues[a] ELSE << >>]

Templates ==
    {[a \in AttributeSlugs |-> TemplateAttributeRow(a, kinds[a])] :
        kinds \in [AttributeSlugs -> TemplateAttributeKinds]}

\* keys and values of the specifications maps of the modelled callers
SpecificationKeys == AttributeSlugs \cup {"color"}
SpecificationValues ==
    {Null, StrValue(<< >>), StrValue(<<" ", "H", "P", " ">>), StrValue(<<"8">>),
     StrValue(<<"Y", "e", "s">>), IntValue(0), BoolValue(TRUE)}

SpecificationInputs ==
    UNION {[K -> SpecificationValues] :
             K \in {S \in SUBSET SpecificationKeys : Cardinality(S) <= MaxSpecifications}}

\* ProductViewSet.validate_specifications: is_valid, then the Response with
\* validated_specifications, or with the errors and status 400
ValidateSpecifications(p) ==
    /\ pc[p] = "idle"
    /\ \E template \in Templates, specifications \in SpecificationInputs :
         LET validation == ProductSerializer_validate(template, specifications)
         IN  /\ req' = [req EXCEPT ![p] =
                          [NoReq EXCEPT !.kind = "validate_specifications",
                                        !.template = template,
                                        !.specifications = specifications]]
             /\ resp' = [resp EXCEPT ![p] =
                           IF DOMAIN validation.errors = {}
                           THEN [Response("valid") EXCEPT
                                   !.validated_specifications = validation.validated_specs]
                           ELSE [Response("invalid") EXCEPT
                                   !.errors = validation.errors]]
    /\ pc' = [pc EXCEPT ![p] = "done"]
    /\ UNCHANGED <<records, movements, obj, tx, nedits, catalog>>

\* the view returns its Response; the thread takes the next request
Respond(p) ==
    /\ pc[p] = "done"
    /\ pc' = [pc EXCEPT ![p] = "idle"]
    /\ req' = [req EXCEPT ![p] = NoReq]
    /\ obj' = [obj EXCEPT ![p] = NoObj]
    /\ resp' = [resp EXCEPT ![p] = NoResp]
    /\ UNCHANGED <<records, movements, tx, nedits, catalog>>

\* request bodies of the modelled callers: to_warehouse is sent with transfers,
\* unit_cost as null
MovementInputs(Ps, Ws, Ts, maxq) ==
    { i \in [product : Ps, warehouse : Ws, movement_type : MOVEMENT_TYPE_CHOICES,
             quantity : MinQuantity..maxq, reason : ReasonInputs,
             unit_cost : {NoUnitCost}, to_warehouse : Ts \cup {NoWarehouse}] :
        i.movement_type # "TRANSFER" => i.to_warehouse = NoWarehouse }

\* request bodies of adjustments
AdjustmentInputs(Ps, Ws, maxn) ==
    [product : Ps, warehouse : Ws, new_quantity : 0..maxn]

\* requests that name a product or a warehouse of another company: one unit
ForeignMovementInputs ==
    { i \in MovementInputs(Products, Warehouses, Warehouses, MinQuantity) :
        \/ i.product \notin OwnProducts
        \/ i.warehouse \notin OwnWarehouses
        \/ i.to_warehouse \notin OwnWarehouses \cup {NoWarehouse} }

ForeignAdjustmentInputs ==
    { i \in AdjustmentInputs(Products, Warehouses, MinQuantity) :
        i.product \notin OwnProducts \/ i.warehouse \notin OwnWarehouses }

\* the warehouse whose stock the two concurrent threads work on; their
\* transfers leave it for the caller's other warehouses
ContendedWarehouses == {"A"}

\* two request threads, their statements interleaved; every quantity is one unit
Next ==
    \/ \E p \in Procs,
          i \in MovementInputs(OwnProducts, ContendedWarehouses,
                               OwnWarehouses \ ContendedWarehouses, MinQuantity) :
          MovementValidate(p, MaxConcurrentRequests, i.product, i.warehouse,
                           i.movement_type, i.quantity, i.reason, i.unit_cost,
                           i.to_warehouse)
    \/ \E p \in Procs : MovementCreate(p)
    \/ \E p \in Procs : TransferOriginLeg(p)
    \/ \E p \in Procs : TransferDestinationLeg(p)
    \/ \E p \in Procs : TransferDestinationFails(p)
    \/ \E p \in Procs,
          i \in AdjustmentInputs(OwnProducts, ContendedWarehouses, MinQuantity) :
          AdjustmentBegin(p, MaxConcurrentRequests, i.product, i.warehouse,
                          i.new_quantity)
    \/ \E p \in Procs : AdjustmentSave(p)
    \/ \E p \in Procs : Respond(p)

Spec == Init /\ [][Next]_vars

\* requests served one at a time, by one thread
NextSeq ==
    \/ \E p \in SeqProcs,
          i \in MovementInputs(OwnProducts, OwnWarehouses, OwnWarehouses, MaxQuantity)
                \cup ForeignMovementInputs :
          MovementValidate(p, MaxRequests, i.product, i.warehouse,
                           i.movement_type, i.quantity, i.reason, i.unit_cost,
                           i.to_warehouse)
    \/ \E p \in SeqProcs : MovementCreate(p)
    \/ \E p \in SeqProcs : TransferOriginLeg(p)
    \/ \E p \in SeqProcs : TransferDestinationLeg(p)
    \/ \E p \in SeqProcs : TransferDestinationFails(p)
    \/ \E p \in SeqProcs,
          i \in AdjustmentInputs(OwnProducts, OwnWarehouses, MaxNewQuantity)
                \cup ForeignAdjustmentInputs :
          AdjustmentBegin(p, MaxRequests, i.product, i.warehouse, i.new_quantity)
    \/ \E p \in SeqProcs : AdjustmentSave(p)
    \/ \E p \in SeqProcs, k \in StockKeys : ReconcileGet(p, k)
    \/ \E p \in SeqProcs : ReconcileCalculate(p)
    \/ \E p \in SeqProcs : ReconcileSave(p)
    \/ \E p \in SeqProcs : ReconcileAgain(p)
    \/ \E p \in SeqProcs : Respond(p)

SpecSeq == Init /\ [][NextSeq]_vars

\* the whole stock API, requests one at a time: movements are also edited
NextApi ==
    \/ \E p \in SeqProcs,
          i \in MovementInputs(OwnProducts, OwnWarehouses, OwnWarehouses, MinQuantity) :
          MovementValidate(p, MaxEditRequests, i.product, i.warehouse,
                           i.movement_type, i.quantity, i.reason, i.unit_cost,
                           i.to_warehouse)
    \/ \E p \in SeqProcs : MovementCreate(p)
    \/ \E p \in SeqProcs : TransferOriginLeg(p)
    \/ \E p \in SeqProcs : TransferDestinationLeg(p)
    \/ \E p \in SeqProcs : TransferDestinationFails(p)
    \/ \E p \in SeqProcs,
          i \in AdjustmentInputs(OwnProducts, OwnWarehouses, MinQuantity) :
          AdjustmentBegin(p, MaxEditRequests, i.product, i.warehouse, i.new_quantity)
    \/ \E p \in SeqProcs : AdjustmentSave(p)
    \/ \E p \in SeqProcs, k \in StockKeys : ReconcileGet(p, k)
    \/ \E p \in SeqProcs : ReconcileCalculate(p)
    \/ \E p \in SeqProcs : ReconcileSave(p)
    \/ \E p \in SeqProcs, id \in 1..(2 * MaxEditRequests), patch \in PatchInputs :
          MovementUpdate(p, id, patch)
    \/ \E p \in SeqProcs, id \in 1..(2 * MaxEditRequests) : MovementDestroy(p, id)
    \/ \E p \in SeqProcs : Respond(p)

SpecApi == Init /\ [][NextApi]_vars

\* stock requests and product administration, one request at a time; every
\* quantity is one unit
NextProduct ==
    \/ \E p \in SeqProcs,
          i \in MovementInputs(OwnProducts, OwnWarehouses, OwnWarehouses, MinQuantity) :
          MovementValidate(p, MaxProductRequests, i.product, i.warehouse,
                           i.movement_type, i.quantity, i.reason, i.unit_cost,
                           i.to_warehouse)
    \/ \E p \in SeqProcs : MovementCreate(p)
    \/ \E p \in SeqProcs : TransferOriginLeg(p)
    \/ \E p \in SeqProcs : TransferDestinationLeg(p)
    \/ \E p \in SeqProcs : TransferDestinationFails(p)
    \/ \E p \in SeqProcs,
          i \in AdjustmentInputs(OwnProducts, OwnWarehouses, MinQuantity) :
          AdjustmentBegin(p, MaxProductRequests, i.product, i.warehouse, i.new_quantity)
    \/ \E p \in SeqProcs : AdjustmentSave(p)
    \/ \E p \in SeqProcs, x \in Products : ProductDestroy(p, x)
    \/ \E p \in SeqProcs, x \in Products, is_active \in BOOLEAN :
          ProductUpdate(p, x, is_active)
    \/ \E p \in SeqProcs : Respond(p)

SpecProduct == Init /\ [][NextProduct]_vars

\* warehouse administration: callers of both companies, one request at a time
NextWarehouse ==
    \/ \E p \in SeqProcs, company \in Companies, w \in WarehouseRows,
          is_main \in BOOLEAN, is_active \in BOOLEAN :
          WarehouseCreate(p, company, w, is_main, is_active)
    \/ \E p \in SeqProcs, company \in Companies, w \in WarehouseRows,
          is_main \in BOOLEAN, is_active \in BOOLEAN :
          WarehouseUpdate(p, company, w, is_main, is_active)
    \/ \E p \in SeqProcs : WarehouseSave(p)
    \/ \E p \in SeqProcs : Respond(p)

SpecWarehouse == Init /\ [][NextWarehouse]_vars

\* IN and OUT request bodies that send to_warehouse as well (the field is
\* not required and not limited to transfers): one unit
LabelledMovementInputs ==
    [product : OwnProducts, warehouse : OwnWarehouses, movement_type : {"IN", "OUT"},
     quantity : {MinQuantity}, reason : ReasonInputs, unit_cost : {NoUnitCost},
     to_warehouse : Warehouses]

\* stock requests that name rows of the caller's company and of another one,
\* one request at a time; every quantity is one unit
NextTenant ==
    \/ \E p \in SeqProcs,
          i \in MovementInputs(OwnProducts, OwnWarehouses, OwnWarehouses, MinQuantity)
                \cup ForeignMovementInputs \cup LabelledMovementInputs :
          MovementValidate(p, MaxTenantRequests, i.product, i.warehouse,
                           i.movement_type, i.quantity, i.reason, i.unit_cost,
                           i.to_warehouse)
    \/ \E p \in SeqProcs : MovementCreate(p)
    \/ \E p \in SeqProcs : TransferOriginLeg(p)
    \/ \E p \in SeqProcs : TransferDestinationLeg(p)
    \/ \E p \in SeqProcs : TransferDestinationFails(p)
    \/ \E p \in SeqProcs,
          i \in AdjustmentInputs(OwnProducts, OwnWarehouses, MinQuantity)
                \cup ForeignAdjustmentInputs :
          AdjustmentBegin(p, MaxTenantRequests, i.product, i.warehouse, i.new_quantity)
    \/ \E p \in SeqProcs : AdjustmentSave(p)
    \/ \E p \in SeqProcs : Respond(p)

SpecTenant == Init /\ [][NextTenant]_vars

\* unit costs that the callers send: null, or a decimal with no places
UnitCostInputs == {NoUnitCost, "1500"}

\* IN, OUT and TRANSFER request bodies of one unit with a unit cost
CostedMovementInputs ==
    {[i EXCEPT !.unit_cost = c] :
        i \in MovementInputs(OwnProducts, OwnWarehouses, OwnWarehouses, MinQuantity),
        c \in UnitCostInputs}

\* movements and transfers with their unit costs, one request at a time
NextTransfer ==
    \/ \E p \in SeqProcs, i \in CostedMovementInputs :
          MovementValidate(p, MaxTransferRequests, i.product, i.warehouse,
                           i.movement_type, i.quantity, i.reason, i.unit_cost,
                           i.to_warehouse)
    \/ \E p \in SeqProcs : MovementCreate(p)
    \/ \E p \in SeqProcs : TransferOriginLeg(p)
    \/ \E p \in SeqProcs : TransferDestinationLeg(p)
    \/ \E p \in SeqProcs : TransferDestinationFails(p)
    \/ \E p \in SeqProcs : Respond(p)

SpecTransfer == Init /\ [][NextTransfer]_vars

\* specification validation, one request at a time
NextValidator ==
    \/ \E p \in SeqProcs : ValidateSpecifications(p)
    \/ \E p \in SeqProcs : Respond(p)

SpecValidator == Init /\ [][NextValidator]_vars

\* the warehouses whose stock rows the two racing threads create
RaceWarehouses == {"A", "B"}

\* request bodies of the racing threads, as validated data
RaceInputs ==
    {[NoReq EXCEPT !.kind = "movement", !.product = i.product,
                   !.warehouse = i.warehouse, !.movement_type = i.movement_type,
                   !.quantity = i.quantity, !.reason = i.reason,
                   !.unit_cost = i.unit_cost, !.to_warehouse = i.to_warehouse] :
        i \in MovementInputs(OwnProducts, RaceWarehouses, RaceWarehouses, MinQuantity)}
    \cup
    {[NoReq EXCEPT !.kind = "adjustment", !.product = i.product,
                   !.warehouse = i.warehouse, !.new_quantity = i.new_quantity] :
        i \in AdjustmentInputs(OwnProducts, RaceWarehouses, MinQuantity)}

\* two request threads; get_or_create of a missing StockRecord runs statement
\* by statement; every quantity is one unit
NextRace ==
    \/ \E p \in Procs, i \in RaceInputs : GetOrCreateMisses(p, MaxRaceRequests, i)
    \/ \E p \in Procs : RecordInsert(p)
    \/ \E p \in Procs : RecordGetAgain(p)
    \/ \E p \in Procs,
          i \in MovementInputs(OwnProducts, RaceWarehouses, RaceWarehouses, MinQuantity) :
          MovementValidate(p, MaxRaceRequests, i.product, i.warehouse,
                           i.movement_type, i.quantity, i.reason, i.unit_cost,
                           i.to_warehouse)
    \/ \E p \in Procs : MovementCreate(p)
    \/ \E p \in Procs : TransferOriginLeg(p)
    \/ \E p \in Procs : TransferDestinationLeg(p)
    \/ \E p \in Procs : TransferDestinationFails(p)
    \/ \E p \in Procs, i \in AdjustmentInputs(OwnProducts, RaceWarehouses, MinQuantity) :
          AdjustmentBegin(p, MaxRaceRequests, i.product, i.warehouse, i.new_quantity)
    \/ \E p \in Procs : AdjustmentSave(p)
    \/ \E p \in Procs : Respond(p)

SpecRace == Init /\ [][NextRace]_vars

\* stock requests of one unit and the administration of the warehouses that
\* hold the stock, callers of both companies, one request at a time
NextDepot ==
    \/ \E p \in SeqProcs,
          i \in MovementInputs(OwnProducts, OwnWarehouses, OwnWarehouses, MinQuantity) :
          MovementValidate(p, MaxWarehouseRequests, i.product, i.warehouse,
                           i.movement_type, i.quantity, i.reason, i.unit_cost,
                           i.to_warehouse)
    \/ \E p \in SeqProcs : MovementCreate(p)
    \/ \E p \in SeqProcs : TransferOriginLeg(p)
    \/ \E p \in SeqProcs : TransferDestinationLeg(p)
    \/ \E p \in SeqProcs : TransferDestinationFails(p)
    \/ \E p \in SeqProcs,
          i \in AdjustmentInputs(OwnProducts, OwnWarehouses, MinQuantity) :
          AdjustmentBegin(p, MaxWarehouseRequests, i.product, i.warehouse,
                          i.new_quantity)
    \/ \E p \in SeqProcs : AdjustmentSave(p)
    \/ \E p \in SeqProcs, company \in Companies, w \in Warehouses :
          WarehouseDestroy(p, company, w)
    \/ \E p \in SeqProcs, company \in Companies, w \in Warehouses,
          is_main \in BOOLEAN, is_active \in BOOLEAN :
          WarehouseUpdate(p, company, w, is_main, is_active)
    \/ \E p \in SeqProcs : WarehouseSave(p)
    \/ \E p \in SeqProcs : Respond(p)

SpecDepot == Init /\ [][NextDepot]_vars

\* ================================================================ claims
Key(p) == <<req[p].product, req[p].warehouse>>
DestKey(p) == <<req[p].product, req[p].to_warehouse>>
Quiescent == \A p \in Procs : pc[p] = "idle"

\* the ledger's own account of a record: IN rows credit it, OUT rows and
\* TRANSFER (origin-side) rows debit it
RECURSIVE LedgerBalance(_, _)
LedgerBalance(ms, k) ==
    IF ms = << >> THEN 0
    ELSE LET m == Head(ms)
         IN (IF m.stock_record # k THEN 0
             ELSE IF m.movement_type = "IN" THEN m.quantity ELSE -m.quantity)
            + LedgerBalance(Tail(ms), k)

RECURSIVE CountFor(_, _)
CountFor(ms, k) ==
    IF ms = << >> THEN 0
    ELSE (IF Head(ms).stock_record = k THEN 1 ELSE 0) + CountFor(Tail(ms), k)

\* C1 (SpecSeq): once every request has been answered, each StockRecord's
\* current_quantity is its IN rows minus its OUT rows and transfer debits, and
\* reconcile on it would compare equal (report changed = false).
C1_BalanceMatchesLedger ==
    Quiescent =>
        \A k \in StockKeys :
            records[k].exists =>
                /\ records[k].current_quantity = LedgerBalance(movements, k)
                /\ records[k].current_quantity = calculate_quantity_from_movements(k)

\* C2 (SpecSeq): no StockRecord's current_quantity is ever below zero.
C2_NonNegative ==
    \A k \in StockKeys : records[k].current_quantity >= 0

\* C3 (Spec): thread o is about to write an OUT that it validated against the
\* same balance b from which thread p's OUT, already written to the same
\* record, was computed; if the two quantities together exceed b, o's request
\* does not succeed.
C3_AtMostOneConcurrentOut ==
    [][\A p \in Procs, o \in Procs :
          ( /\ p # o
            /\ pc[p] = "done" /\ req[p].kind = "movement"
            /\ req[p].movement_type = "OUT" /\ resp[p].status = "created"
            /\ pc[o] = "create" /\ req[o].movement_type = "OUT"
            /\ Key(o) = Key(p)
            /\ records[Key(p)].current_quantity = resp[p].resulting_balance
            /\ obj[o].current_quantity = resp[p].resulting_balance + req[p].quantity
            /\ req[p].quantity + req[o].quantity > obj[o].current_quantity )
          => ~(pc'[o] = "done" /\ resp'[o].status = "created")]_vars

\* C4 (Spec): a transfer whose destination-side write fails leaves the
\* committed StockRecords and the ledger as they were: neither its origin-side
\* step nor the failure changes a balance or adds a movement.
C4_TransferAllOrNothing ==
    [][\A p \in Procs :
          ( \/ /\ pc[p] = "create" /\ pc'[p] = "transfer_dest"
            \/ /\ pc[p] = "transfer_dest" /\ pc'[p] = "done"
               /\ resp'[p].status = "server_error" )
          => /\ records' = records
             /\ movements' = movements]_vars

C4_Witness ==
    \E p \in Procs :
        /\ pc[p] = "done" /\ req[p].movement_type = "TRANSFER"
        /\ resp[p].status = "server_error"
        /\ records[Key(p)].current_quantity > 0
        /\ \A i \in 1..Len(movements) : movements[i].movement_type # "TRANSFER"

\* C5 (SpecApi): a delete request is answered with an error and removes
\* nothing, and in no step does the number of movements of a StockRecord
\* decrease.
C5_LedgerNeverShrinks ==
    [][/\ \A k \in StockKeys : CountFor(movements', k) >= CountFor(movements, k)
       /\ \A p \in Procs :
            (pc[p] = "idle" /\ req'[p].kind = "destroy")
            => resp'[p].status = "cannot_delete" /\ movements' = movements]_vars

\* C6 (SpecApi): an update request on a movement fails, and no step changes
\* a row that is already in the ledger.
C6_MovementsImmutable ==
    [][/\ \A i \in 1..Len(movements) :
            i <= Len(movements') /\ movements'[i] = movements[i]
       /\ \A p \in Procs :
            (pc[p] = "idle" /\ req'[p].kind = "update")
            => resp'[p].status # "updated"]_vars

\* C7 (SpecSeq): an OUT request for more than the StockRecord's
\* current_quantity is answered with the insufficient-stock error carrying
\* that quantity; the balance and the ledger stay as they were.
C7_OutInsufficientRejected ==
    [][\A p \in Procs :
          ( /\ pc[p] = "idle" /\ req'[p].kind = "movement"
            /\ req'[p].movement_type = "OUT"
            /\ ProductCompany[req'[p].product] = UserCompany
            /\ WarehouseCompany[req'[p].warehouse] = UserCompany
            /\ req'[p].quantity > records[Key(p)'].current_quantity )
          => /\ pc'[p] = "done"
             /\ resp'[p].status = "insufficient_stock"
             /\ resp'[p].available = records[Key(p)'].current_quantity
             /\ records'[Key(p)'].current_quantity = records[Key(p)'].current_quantity
             /\ movements' = movements]_vars

C7_Witness ==
    \E p \in Procs :
        /\ pc[p] = "done" /\ req[p].movement_type = "OUT"
        /\ resp[p].status = "insufficient_stock"
        /\ resp[p].available > 0
        /\ records[Key(p)].current_quantity = resp[p].available

\* C8 (SpecSeq): a TRANSFER request for more than the origin StockRecord's
\* current_quantity is answered with the insufficient-stock error; no balance
\* changes and no movement is added.
C8_TransferInsufficientRejected ==
    [][\A p \in Procs :
          ( /\ pc[p] = "idle" /\ req'[p].kind = "movement"
            /\ req'[p].movement_type = "TRANSFER"
            /\ ProductCompany[req'[p].product] = UserCompany
            /\ WarehouseCompany[req'[p].warehouse] = UserCompany
            /\ req'[p].to_warehouse \in OwnWarehouses \ {req'[p].warehouse}
            /\ req'[p].quantity > records[Key(p)'].current_quantity )
          => /\ pc'[p] = "done"
             /\ resp'[p].status = "insufficient_stock"
             /\ movements' = movements
             /\ \A k \in StockKeys :
                    records'[k].current_quantity = records[k].current_quantity]_vars

\* C9 (SpecSeq): a successful IN or OUT creation on a record with balance b
\* leaves current_quantity at b + q for IN and b - q for OUT, and the new
\* movement's resulting_balance is that new current_quantity.
C9_InOutArithmetic ==
    [][\A p \in Procs :
          ( /\ pc[p] = "create" /\ req[p].movement_type \in {"IN", "OUT"}
            /\ pc'[p] = "done" /\ resp'[p].status = "created" )
          => LET b == records[Key(p)].current_quantity
                 q == req[p].quantity
             IN  /\ records'[Key(p)].current_quantity =
                        IF req[p].movement_type = "IN" THEN b + q ELSE b - q
                 /\ Len(movements') = Len(movements) + 1
                 /\ movements'[Len(movements')].stock_record = Key(p)
                 /\ movements'[Len(movements')].movement_type = req[p].movement_type
                 /\ movements'[Len(movements')].quantity = q
                 /\ movements'[Len(movements')].resulting_balance =
                        records'[Key(p)].current_quantity
                 /\ resp'[p].resulting_balance = records'[Key(p)].current_quantity]_vars

C9_Witness ==
    \E p \in Procs :
        /\ pc[p] = "done" /\ req[p].movement_type = "OUT"
        /\ resp[p].status = "created"
        /\ req[p].quantity = 1
        /\ resp[p].resulting_balance = 1
        /\ records[Key(p)].current_quantity = 1

\* C10 (SpecSeq): a successful TRANSFER of q from warehouse A to warehouse B
\* lowers the (product, A) balance by q and raises the (product, B) balance
\* by q; a (product, B) record that did not exist is created and holds q.
C10_TransferMovesQuantity ==
    [][\A p \in Procs :
          ( /\ pc[p] = "transfer_dest" /\ pc'[p] = "done"
            /\ resp'[p].status = "created" )
          => LET q == req[p].quantity
             IN  /\ records'[Key(p)].current_quantity =
                        records[Key(p)].current_quantity - q
                 /\ records'[DestKey(p)].exists
                 /\ records'[DestKey(p)].current_quantity =
                        records[DestKey(p)].current_quantity + q
                 /\ ~records[DestKey(p)].exists =>
                        records'[DestKey(p)].current_quantity = q]_vars

C10_Witness ==
    \E p \in Procs :
        /\ pc[p] = "done" /\ req[p].movement_type = "TRANSFER"
        /\ resp[p].status = "created"
        /\ records[Key(p)].current_quantity = 1
        /\ records[DestKey(p)].current_quantity = 1

\* a product's stock over every warehouse
TotalStock(recs, x) ==
    recs[<<x, "A">>].current_quantity + recs[<<x, "B">>].current_quantity
    + recs[<<x, "X">>].current_quantity

\* a step of a thread that is serving a TRANSFER request
TransferStep(p) ==
    /\ pc'[p] # pc[p]
    /\ req'[p].kind = "movement" /\ req'[p].movement_type = "TRANSFER"

\* C11 (SpecSeq): no step of a TRANSFER request, accepted or rejected,
\* changes the sum of a product's current_quantity over its StockRecords.
C11_TransfersConserveStock ==
    [][\A p \in Procs :
          TransferStep(p)
          => \A x \in Products : TotalStock(records', x) = TotalStock(records, x)]_vars

C11_Witness ==
    \E p \in Procs :
        /\ pc[p] = "done" /\ req[p].movement_type = "TRANSFER"
        /\ resp[p].status = "created"
        /\ req[p].quantity = 2
        /\ records[Key(p)].current_quantity = 0
        /\ TotalStock(records, req[p].product) = 2

\* C12 (SpecSeq): when a TRANSFER commits, the origin-side movement's
\* resulting_balance is the origin's current_quantity after the debit and the
\* destination-side movement's is the destination's after the credit.
C12_TransferRowsStoreOwnBalance ==
    [][\A p \in Procs :
          ( /\ pc[p] = "transfer_dest" /\ pc'[p] = "done"
            /\ resp'[p].status = "created" )
          => LET n == Len(movements')
             IN  /\ n = Len(movements) + 2
                 /\ movements'[n - 1].stock_record = Key(p)
                 /\ movements'[n - 1].resulting_balance =
                        records'[Key(p)].current_quantity
                 /\ movements'[n].stock_record = DestKey(p)
                 /\ movements'[n].resulting_balance =
                        records'[DestKey(p)].current_quantity]_vars

C14_NoOpAdjustmentRejected ==
    [][\A p \in Procs :
          ( /\ pc[p] = "idle" /\ req'[p].kind = "adjustment"
            /\ ProductCompany[req'[p].product] = UserCompany
            /\ WarehouseCompany[req'[p].warehouse] = UserCompany
            /\ req'[p].new_quantity = records[Key(p)'].current_quantity )
          => /\ pc'[p] = "done"
             /\ resp'[p].status = "no_op"
             /\ records' = records
             /\ movements' = movements
             /\ tx' = tx]_vars

C14_Witness ==
    \E p \in Procs :
        /\ pc[p] = "done" /\ req[p].kind = "adjustment"
        /\ resp[p].status = "no_op"
        /\ req[p].new_quantity = 2
        /\ records[Key(p)].current_quantity = 2
        /\ Len(movements) = 1

\* the sum the spec gives for a record: +quantity for its IN rows, -quantity
\* for its OUT rows
InMinusOut(ms, k) ==
    LET f[i \in 0..Len(ms)] ==
            IF i = 0 THEN 0
            ELSE f[i - 1] + (IF ms[i].stock_record # k THEN 0
                             ELSE IF ms[i].movement_type = "IN" THEN ms[i].quantity
                             ELSE IF ms[i].movement_type = "OUT" THEN -ms[i].quantity
                             ELSE 0)
    IN  f[Len(ms)]

\* C15 (SpecSeq): a reconcile request sent right after a reconcile answer for
\* the same record, nothing in between, never reaches the save, answers
\* changed = false and leaves every current_quantity as the first call left it.
C15_ReconcileIdempotent ==
    [][\A p \in Procs :
          (req'[p].kind = "reconcile_again" /\ pc'[p] # pc[p])
          => /\ records' = records
             /\ movements' = movements
             /\ pc'[p] # "reconcile_save"
             /\ pc'[p] = "done" => resp'[p].status = "not_reconciled"]_vars

C15_Witness ==
    \E p \in Procs :
        /\ pc[p] = "done" /\ req[p].kind = "reconcile_again"
        /\ resp[p].status = "not_reconciled"
        /\ records[Key(p)].current_quantity # LedgerBalance(movements, Key(p))

\* C16 (SpecSeq): reconcile answers changed = true with old_quantity,
\* new_quantity and their difference and stores the IN-minus-OUT sum of the
\* record's movements when that sum differs from current_quantity; it answers
\* changed = false and stores nothing when they are equal; no step of it
\* touches the ledger or another record.
C16_ReconcileComparesAndOverwrites ==
    [][\A p \in Procs :
          (req'[p].kind \in {"reconcile", "reconcile_again"} /\ pc'[p] # pc[p])
          => LET k == Key(p)'
                 old == records[k].current_quantity
                 sum == InMinusOut(movements, k)
             IN  /\ movements' = movements
                 /\ \A j \in StockKeys \ {k} : records'[j] = records[j]
                 /\ pc'[p] # "done" => records' = records
                 /\ pc'[p] = "done" =>
                        IF old # sum
                        THEN /\ resp'[p].status = "reconciled"
                             /\ resp'[p].old_quantity = old
                             /\ resp'[p].new_quantity = sum
                             /\ resp'[p].difference = sum - old
                             /\ records'[k].current_quantity = sum
                        ELSE /\ resp'[p].status = "not_reconciled"
                             /\ records' = records]_vars

C16_Witness ==
    \E p \in Procs :
        /\ pc[p] = "done" /\ req[p].kind = "reconcile"
        /\ resp[p].status = "reconciled"
        /\ resp[p].old_quantity = 1 /\ resp[p].new_quantity = 2
        /\ resp[p].difference = 1
        /\ records[Key(p)].current_quantity = 2

\* C17 (SpecSeq): a TRANSFER request whose to_warehouse is missing or is its
\* own warehouse is rejected; no current_quantity changes and no movement is
\* appended.
C17_TransferDestinationRejected ==
    [][\A p \in Procs :
          ( /\ pc[p] = "idle" /\ req'[p].kind = "movement"
            /\ req'[p].movement_type = "TRANSFER"
            /\ ProductCompany[req'[p].product] = UserCompany
            /\ WarehouseCompany[req'[p].warehouse] = UserCompany
            /\ req'[p].to_warehouse \in {NoWarehouse, req'[p].warehouse} )
          => /\ pc'[p] = "done"
             /\ resp'[p].status =
                    IF req'[p].to_warehouse = NoWarehouse
                    THEN "transfer_requires_destination" ELSE "same_warehouse"
             /\ movements' = movements
             /\ tx' = tx
             /\ \A k \in StockKeys :
                    records'[k].current_quantity = records[k].current_quantity]_vars

C17_Witness ==
    \E p \in Procs :
        /\ pc[p] = "done" /\ req[p].movement_type = "TRANSFER"
        /\ resp[p].status = "same_warehouse"
        /\ req[p].quantity = 1
        /\ records[Key(p)].current_quantity = 2

\* C18 (SpecSeq): a create-movement or adjustment request that is rejected
\* leaves the StockRecord table and the ledger exactly as they were.
C18_RejectedCommitsNothing ==
    [][\A p \in Procs :
          ( /\ pc[p] = "idle" /\ pc'[p] = "done"
            /\ req'[p].kind \in {"movement", "adjustment"} )
          => /\ records' = records
             /\ movements' = movements]_vars

MainsOf(rows, company) ==
    {r \in WarehouseRows : rows[r].exists /\ RowCompany[r] = company /\ rows[r].is_main}

\* C19 (SpecWarehouse): each company has at most one warehouse flagged
\* is_main; no step of a warehouse save changes a row of another company; a
\* save with is_main = true leaves the saved warehouse as its company's only
\* main one.
C19_OneMainWarehouse ==
    [][/\ \A c \in Companies :
            Cardinality(MainsOf(warehouses, c)) <= 1
            /\ Cardinality(MainsOf(warehouses', c)) <= 1
       /\ \A p \in Procs :
            ( /\ pc'[p] # pc[p]
              /\ req'[p].kind \in {"warehouse_create", "warehouse_update"} )
            => /\ \A r \in WarehouseRows :
                      RowCompany[r] # RowCompany[req'[p].warehouse]
                      => warehouses'[r] = warehouses[r]
               /\ (pc'[p] = "done" /\ resp'[p].status \in {"created", "updated"}
                   /\ req'[p].is_main)
                  => MainsOf(warehouses', req'[p].company) = {req'[p].warehouse}]_vars

C19_Witness ==
    \E p \in Procs :
        /\ pc[p] = "done" /\ req[p].kind = "warehouse_update"
        /\ resp[p].status = "updated"
        /\ req[p].warehouse = "B" /\ req[p].is_main
        /\ MainsOf(warehouses, "c1") = {"B"}
        /\ MainsOf(warehouses, "c2") = {"X"}
        /\ warehouses["C"].exists

HoldsStock(recs, x) == \E w \in Warehouses : recs[<<x, w>>].current_quantity # 0

\* C20 (SpecProduct): a product's is_active goes from true to false only in a
\* state where none of its StockRecords holds a quantity other than 0, and a
\* delete request on a product one of whose StockRecords holds stock is
\* refused and changes no product.
C20_DeactivatedOnlyWithoutStock ==
    [][/\ \A x \in Products :
            (products[x].is_active /\ ~products'[x].is_active)
            => ~HoldsStock(records, x)
       /\ \A p \in Procs :
            ( /\ pc[p] = "idle" /\ req'[p].kind = "product_destroy"
              /\ InProductQueryset(req'[p].product)
              /\ HoldsStock(records, req'[p].product) )
            => /\ resp'[p].status = "cannot_delete_with_stock"
               /\ products' = products]_vars

\* a step that answers a validate-specifications request of thread p
ValidationStep(p) == pc[p] = "idle" /\ req'[p].kind = "validate_specifications"

\* the specifications map carries no value for a: no key, null or ""
NotSupplied(specifications, a) ==
    a \notin DOMAIN specifications
    \/ specifications[a] \in {Null, StrValue(<< >>)}

\* what the default values are once coerced: "8" as a number, " HP " as text,
\* "Yes" as a boolean
CoercedDefaults ==
    [a \in AttributeSlugs |->
        IF a = "ram" THEN FloatValue(8)
        ELSE IF a = "brand" THEN StrValue(<<"H", "P">>)
        ELSE BoolValue(TRUE)]

\* C21 (SpecValidator): for an active attribute of the template, required
\* with no value and no default gives an error under its slug; required with
\* no value and a default gives no error about it and, on success, the
\* coerced default in the validated map; optional and not in the input gives
\* no error about it and no key.  With ram required and brand optional, the
\* input {brand} fails with the single error "ram".
C21_RequiredDefaultOptional ==
    [][\A p \in Procs :
          ValidationStep(p)
          => LET t == req'[p].template
                 sp == req'[p].specifications
                 r == resp'[p]
             IN  /\ \A a \in AttributeSlugs :
                      (t[a].exists /\ t[a].is_active)
                      => /\ ( /\ t[a].is_required /\ NotSupplied(sp, a)
                              /\ t[a].default_value = << >> )
                            => r.status = "invalid" /\ a \in DOMAIN r.errors
                         /\ ( /\ t[a].is_required /\ NotSupplied(sp, a)
                              /\ t[a].default_value # << >> )
                            => /\ a \in DOMAIN r.errors => r.errors[a].kind = "unknown"
                               /\ r.status = "valid"
                                  => /\ a \in DOMAIN r.validated_specifications
                                     /\ r.validated_specifications[a] = CoercedDefaults[a]
                         /\ (~t[a].is_required /\ a \notin DOMAIN sp)
                            => /\ a \in DOMAIN r.errors => r.errors[a].kind = "unknown"
                               /\ a \notin DOMAIN r.validated_specifications
                 /\ ( /\ t["ram"] = TemplateAttributeRow("ram", "required")
                      /\ t["brand"] = TemplateAttributeRow("brand", "optional")
                      /\ ~t["specifications"].exists
                      /\ DOMAIN sp = {"brand"}
                      /\ sp["brand"] = StrValue(<<" ", "H", "P", " ">>) )
                    => /\ r.status = "invalid"
                       /\ DOMAIN r.errors = {"ram"}
                       /\ r.errors["ram"] = ErrorDetail("required", {"ram"})]_vars

C21_Witness ==
    \E p \in Procs :
        /\ pc[p] = "done" /\ req[p].kind = "validate_specifications"
        /\ req[p].template["ram"] = TemplateAttributeRow("ram", "required_default")
        /\ req[p].template["brand"] = TemplateAttributeRow("brand", "optional")
        /\ DOMAIN req[p].specifications = {"brand"}
        /\ resp[p].status = "valid"
        /\ DOMAIN resp[p].validated_specifications = {"ram", "brand"}
        /\ resp[p].validated_specifications["ram"] = FloatValue(8)
        /\ resp[p].validated_specifications["brand"] = StrValue(<<"H", "P">>)

\* a request body that names a row of another company
NamesForeignRow(r) ==
    \/ ProductCompany[r.product] # UserCompany
    \/ WarehouseCompany[r.warehouse] # UserCompany
    \/ /\ r.kind = "movement" /\ r.to_warehouse \in Warehouses
       /\ WarehouseCompany[r.to_warehouse] # UserCompany

\* every StockRecord pairs a product and a warehouse of one company, and the
\* from_warehouse and the to_warehouse that a movement names are of the
\* company of the movement's product
WithinTenants(recs, ms) ==
    /\ \A k \in StockKeys :
          recs[k].exists => ProductCompany[k[1]] = WarehouseCompany[k[2]]
    /\ \A i \in 1..Len(ms) :
          /\ ms[i].from_warehouse \in Warehouses
             => WarehouseCompany[ms[i].from_warehouse] = ProductCompany[ms[i].stock_record[1]]
          /\ ms[i].to_warehouse \in Warehouses
             => WarehouseCompany[ms[i].to_warehouse] = ProductCompany[ms[i].stock_record[1]]

\* C22 (SpecTenant): a create-movement or adjustment request that names a
\* product, a warehouse or a destination warehouse of another company is
\* answered with the company error of that field and appends no movement; in
\* every state each StockRecord pairs a product and a warehouse of one company
\* and the from_warehouse and to_warehouse of each movement are of that company.
C22_NoCrossTenant ==
    [][/\ WithinTenants(records, movements)
       /\ WithinTenants(records', movements')
       /\ \A p \in Procs :
            ( /\ pc[p] = "idle" /\ req'[p].kind \in {"movement", "adjustment"}
              /\ NamesForeignRow(req'[p]) )
            => /\ pc'[p] = "done"
               /\ resp'[p].status \in {"product_company", "warehouse_company",
                                       "to_warehouse_company"}
               /\ movements' = movements
               /\ tx' = tx]_vars

\* the ledger's last two rows are the two rows of a transfer of a quantity
\* that its origin held, and record k, one of the transfer's two records,
\* holds the balance that the transfer gave it, starting from a balance that
\* matched the record's movements
JustTransferred(k) ==
    LET n == Len(movements)
        before == SubSeq(movements, 1, n - 2)
        origin == movements[n - 1]
        destination == movements[n]
    IN  /\ n >= 2
        /\ origin.movement_type = "TRANSFER"
        /\ destination.movement_type = "IN" /\ destination.reason = "transfer"
        /\ destination.from_warehouse = origin.from_warehouse
        /\ records[origin.stock_record].current_quantity >= 0
        /\ \/ /\ k = origin.stock_record
              /\ records[k].current_quantity + origin.quantity = InMinusOut(before, k)
           \/ /\ k = destination.stock_record
              /\ records[k].current_quantity - destination.quantity = InMinusOut(before, k)

\* C23 (SpecSeq): reconcile on the origin record or on the destination record
\* of the transfer that has just committed, each of which matched its
\* movements before the transfer, answers changed = false and leaves every
\* balance at its post-transfer value.
C23_ReconcileCountsTransferLegs ==
    [][\A p \in Procs :
          ( /\ pc[p] = "reconcile_calc" /\ req[p].kind = "reconcile"
            /\ obj[p].current_quantity = records[Key(p)].current_quantity
            /\ JustTransferred(Key(p)) )
          => /\ pc'[p] = "done"
             /\ resp'[p].status = "not_reconciled"
             /\ records' = records]_vars

\* C24 (Spec): when a thread writes the row of an IN, OUT or adjustment
\* request, the balance it computes from is the committed current_quantity of
\* the record at that moment, not one that another request has overwritten
\* since it was read; the record's new current_quantity is the committed one
\* plus the row's signed quantity, and the row's resulting_balance is that new
\* current_quantity.
C24_NoLostUpdate ==
    [][\A p \in Procs :
          ( /\ pc[p] \in {"create", "adjust_save"} /\ req[p].movement_type # "TRANSFER"
            /\ pc'[p] = "done" /\ resp'[p].status = "created" )
          => LET k == Key(p)
                 row == movements'[Len(movements')]
                 signed == IF row.movement_type = "IN" THEN row.quantity
                           ELSE -row.quantity
             IN  /\ Len(movements') = Len(movements) + 1
                 /\ row.stock_record = k
                 /\ obj[p].current_quantity = records[k].current_quantity
                 /\ records'[k].current_quantity = records[k].current_quantity + signed
                 /\ row.resulting_balance = records'[k].current_quantity]_vars

\* C25 (SpecTransfer): the commit of a TRANSFER request appends exactly two
\* rows of the request's quantity: on the origin record a TRANSFER row from
\* the origin warehouse to the destination warehouse, and on the destination
\* record an IN row with reason "transfer" and the same from_warehouse,
\* to_warehouse and unit_cost; the movement in the response is the first one.
C25_TransferWritesTwoRows ==
    [][\A p \in Procs :
          ( /\ req[p].movement_type = "TRANSFER" /\ pc[p] \in {"create", "transfer_dest"}
            /\ pc'[p] # pc[p] )
          => IF pc'[p] = "done" /\ resp'[p].status = "created"
             THEN LET n == Len(movements)
                      origin == movements'[n + 1]
                      destination == movements'[n + 2]
                  IN  /\ Len(movements') = n + 2
                      /\ \A i \in 1..n : movements'[i] = movements[i]
                      /\ origin.stock_record = Key(p)
                      /\ origin.movement_type = "TRANSFER"
                      /\ origin.quantity = req[p].quantity
                      /\ origin.unit_cost = req[p].unit_cost
                      /\ origin.from_warehouse = req[p].warehouse
                      /\ origin.to_warehouse = req[p].to_warehouse
                      /\ destination.stock_record = DestKey(p)
                      /\ destination.movement_type = "IN"
                      /\ destination.reason = "transfer"
                      /\ destination.quantity = origin.quantity
                      /\ destination.unit_cost = origin.unit_cost
                      /\ destination.from_warehouse = origin.from_warehouse
                      /\ destination.to_warehouse = origin.to_warehouse
                      /\ resp'[p].id = n + 1
             ELSE movements' = movements]_vars

C25_Witness ==
    \E p \in Procs :
        /\ pc[p] = "done" /\ req[p].movement_type = "TRANSFER"
        /\ resp[p].status = "created" /\ resp[p].id = 2
        /\ Len(movements) = 3
        /\ movements[2].movement_type = "TRANSFER" /\ movements[2].unit_cost = "1500"
        /\ movements[3].movement_type = "IN" /\ movements[3].unit_cost = "1500"
        /\ movements[1].unit_cost = NoUnitCost

\* C26: concurrent get_or_create of the StockRecord of one (product, warehouse)
\* pair, from any interleaving of create-movement and adjustment requests,
\* leaves one StockRecord for the pair: the pair never has two rows, a request
\* that was answered 201 left exactly one row, and every movement row
\* references a pair that has exactly one row.
C26_SingleStockRecord ==
    /\ \A k \in StockKeys :
          /\ records[k].rows <= 1
          /\ records[k].exists <=> records[k].rows = 1
          /\ Cardinality({p \in Procs : k \in DOMAIN tx[p].recs}) <= 1
    /\ \A p \in Procs :
          pc[p] = "done" /\ resp[p].status = "created" => records[Key(p)].rows = 1
    /\ \A i \in 1..Len(movements) : records[movements[i].stock_record].rows = 1

\* a create-movement request lost the insert race to an adjustment that has
\* been answered 201 for the same pair
C26_Witness ==
    \E p \in Procs, o \in Procs :
        /\ o # p
        /\ pc[p] = "get_again"
        /\ req[p].kind = "movement"
        /\ req[o].kind = "adjustment"
        /\ pc[o] = "done"
        /\ resp[o].status = "created"
        /\ Key(o) = Key(p)
        /\ records[Key(p)].rows = 1

\* C27: reconcile never stores a negative balance: whatever movement history
\* the API produced, the step of reconcile that saves the StockRecord leaves
\* current_quantity >= 0.
C27_ReconcileStoresNonNegative ==
    [][\A p \in Procs :
          (pc[p] = "reconcile_save" /\ pc'[p] = "done")
          => records'[Key(p)].current_quantity >= 0]_vars

\* a step of a delete request of thread p on a warehouse
DestroyStep(p) ==
    \/ pc[p] = "idle" /\ req'[p].kind = "warehouse_destroy"
    \/ pc[p] = "warehouse_save" /\ req[p].kind = "warehouse_destroy"

\* C28: a warehouse's is_active goes from true to false only in a state where
\* none of its StockRecords holds a positive quantity; a delete request on one
\* of the caller's active warehouses that has a StockRecord with
\* current_quantity > 0 is refused and leaves the warehouse active; otherwise
\* its is_active becomes false; no step of a delete request changes a
\* StockRecord or a movement.
C28_WarehouseDeletedOnlyWithoutStock ==
    [][/\ \A w \in Warehouses :
            (warehouses[w].is_active /\ ~warehouses'[w].is_active)
            => ~has_stock(records, w)
       /\ \A p \in Procs :
            DestroyStep(p) =>
               /\ records' = records
               /\ movements' = movements
               /\ ( /\ pc[p] = "idle"
                    /\ InWarehouseQueryset(req'[p].company, req'[p].warehouse)
                    /\ has_stock(records, req'[p].warehouse) )
                  => /\ resp'[p].status = "cannot_delete_with_stock"
                     /\ warehouses' = warehouses
               /\ ( /\ pc[p] = "idle"
                    /\ InWarehouseQueryset(req'[p].company, req'[p].warehouse)
                    /\ ~has_stock(records, req'[p].warehouse) )
                  => pc'[p] = "warehouse_save"
               /\ pc[p] = "warehouse_save"
                  => /\ ~warehouses'[req[p].warehouse].is_active
                     /\ resp'[p].status = "deleted"]_vars

\* the part of C28 that is about delete requests alone
DestroyRefusedWithStock ==
    [][\A w \in Warehouses :
          (/\ warehouses[w].is_active /\ ~warehouses'[w].is_active
           /\ \E p \in Procs : req[p].kind = "warehouse_destroy")
          => ~has_stock(records, w)]_vars

\* C29 (SpecValidator): when the specifications map has a key that is not the
\* slug of an active attribute of the template, validation fails and the
\* errors name that key as unknown; when validation succeeds, every key of the
\* validated map is the slug of an attribute of the template.
C29_UnknownKeysRejected ==
    [][\A p \in Procs :
          ValidationStep(p)
          => LET t == req'[p].template
                 sp == req'[p].specifications
                 r == resp'[p]
                 slugs == {a \in AttributeSlugs : t[a].exists /\ t[a].is_active}
             IN  /\ \A key \in DOMAIN sp :
                      key \notin slugs
                      => /\ r.status = "invalid"
                         /\ "specifications" \in DOMAIN r.errors
                         /\ r.errors["specifications"].kind = "unknown"
                         /\ key \in r.errors["specifications"].attributes
                 /\ r.status = "valid"
                    => /\ DOMAIN sp \subseteq slugs
                       /\ DOMAIN r.validated_specifications \subseteq slugs]_vars

\* a map with a good value for the template's attribute ram and the key color,
\* which the template does not have, was refused
C29_Witness ==
    \E p \in Procs :
        /\ pc[p] = "done" /\ req[p].kind = "validate_specifications"
        /\ req[p].template["ram"] = TemplateAttributeRow("ram", "required")
        /\ DOMAIN req[p].specifications = {"ram", "color"}
        /\ req[p].specifications["ram"] = StrValue(<<"8">>)
        /\ resp[p].status = "invalid"
        /\ DOMAIN resp[p].errors = {"specifications"}
        /\ resp[p].errors["specifications"] = ErrorDetail("unknown", {"color"})

\* the value of attribute a that the type validation looks at: the supplied
\* one, or the default of a required attribute that has no value
Considered(t, sp, a) ==
    IF ~NotSupplied(sp, a) THEN sp[a]
    ELSE IF t[a].is_required /\ t[a].default_value # << >>
         THEN StrValue(t[a].default_value)
         ELSE Null

\* the active attributes of template t that are invalid in the map sp: required
\* with no value and no default, or with a value of the wrong type
MissingAttributes(t, sp) ==
    {a \in AttributeSlugs :
        /\ t[a].exists /\ t[a].is_active /\ t[a].is_required
        /\ NotSupplied(sp, a) /\ t[a].default_value = << >>}

WrongAttributes(t, sp) ==
    {a \in AttributeSlugs :
        /\ t[a].exists /\ t[a].is_active
        /\ Considered(t, sp, a) # Null
        /\ ~validate_attribute_value(Considered(t, sp, a), data_type[a]).ok}

UnknownKeys(t, sp) ==
    {key \in DOMAIN sp : ~(key \in AttributeSlugs /\ t[key].exists /\ t[key].is_active)}

\* C30: validation is not fail-fast: when attributes of the input are invalid,
\* the answer is 400 with no validated map, and its errors hold an entry of
\* its own for every attribute that is required and missing or has a value of
\* the wrong type, and name every unknown key.
C30_AllErrorsCollected ==
    [][\A p \in Procs :
          ValidationStep(p)
          => LET t == req'[p].template
                 sp == req'[p].specifications
                 r == resp'[p]
                 missing == MissingAttributes(t, sp)
                 wrong == WrongAttributes(t, sp)
                 unknown == UnknownKeys(t, sp)
             IN  missing \cup wrong \cup unknown # {}
                 => /\ r.status = "invalid"
                    /\ r.validated_specifications = NoSpecifications
                    /\ \A a \in missing :
                          /\ a \in DOMAIN r.errors
                          /\ r.errors[a] = ErrorDetail("required", {a})
                    /\ \A a \in wrong :
                          /\ a \in DOMAIN r.errors
                          /\ r.errors[a] = ErrorDetail("invalid", {a})
                    /\ \A key \in unknown :
                          \E e \in DOMAIN r.errors :
                             /\ r.errors[e].kind = "unknown"
                             /\ key \in r.errors[e].attributes]_vars

=============================================================================
